---- MODULE Spec2Model ----
(***************************************************************************)
(* Verification model of the city network relay:                           *)
(*   backend/routing.py            RoutingManager (Kruskal MST, BFS route) *)
(*   backend/crypto.py             HuffmanEncoder, CryptoManager           *)
(*   backend/connection_manager.py ConnectionManager (session registry)    *)
(* Each component has its own specification over the shared variables; a   *)
(* component's specification leaves the other components' state alone.     *)
(***************************************************************************)
EXTENDS Integers, Sequences, FiniteSets, TLC

VARIABLES
    \* ---- RoutingManager (routing.py:11-19) ----
    cities,           \* self.cities: sequence of city names
    edges,            \* self.edges: sequence of [u, v, w]
    mst_edges,        \* self.mst_edges
    adjacency_list,   \* self.adjacency_list: index -> sequence of <<v, w>>
    city_to_index,    \* self.city_to_index: name -> index
    index_to_city,    \* self.index_to_city: index -> name
    mst_adjacency,    \* self.mst_adjacency: index -> sequence of <<v, w>>
    topoRequest,      \* the POST /topology request still to be made, or NoRequest
    loadStatus,       \* "none" | "ok" | "raised": outcome of the load_topology call
    routeQuery,       \* the last find_route call on the stored topology and its result, or NoQuery
    \* ---- HuffmanEncoder / CryptoManager codec calls (crypto.py:25-168) ----
    codecRequest,     \* the codec call still to be made, or NoRequest
    codecCall,        \* the last codec call with its arguments and result, or NoCall
    \* ---- CryptoManager shared keys (crypto.py:111-221) ----
    shared_secrets,   \* self.shared_secrets: key_pair -> key
    keyTask,          \* the establish_shared_key calls: where each one is, and its result
    keysDerived,      \* the key_pair of every _key_exchange_sync run, in order
    \* ---- ConnectionManager (connection_manager.py:102-171) ----
    active_connections,  \* self.active_connections: city -> channel
    city_connections,    \* self.city_connections: city -> sequence of channels
    keepalive_tasks,     \* the keys of self.keepalive_tasks: channels with a keepalive task
    channel,             \* per channel: its city, where its websocket_endpoint is, the
                         \* channel its connect is closing, the close() calls made on it
    registrations,       \* per city: the channels connect registered, in order
    disconnectCalls,     \* the channels some disconnect(city, channel) call was made for
    lastDisconnect,      \* the last disconnect call: city, channel, and the channel
                         \* registered for the city before and after the call
    \* ---- messages (connection_manager.py:180-484, websocket_routes.py:42-64) ----
    sendLog,             \* every send_text call made, in order: channel, message, caller
    relay,               \* the send_encrypted request and its send_encrypted_message task
    deliver,             \* the last decrypt_and_deliver_message call and the calls made
    broadcast            \* the broadcast_message call of a "message" payload

routingVars == <<cities, edges, mst_edges, adjacency_list, city_to_index,
                 index_to_city, mst_adjacency, topoRequest, loadStatus, routeQuery>>

codecVars == <<codecRequest, codecCall>>

keyVars == <<shared_secrets, keyTask, keysDerived>>

sessionVars == <<active_connections, city_connections, keepalive_tasks, channel,
                 registrations, disconnectCalls, lastDisconnect>>

messageVars == <<sendLog, relay, deliver, broadcast>>

vars == <<routingVars, codecVars, keyVars, sessionVars, messageVars>>

notRoutingVars == <<codecVars, keyVars, sessionVars, messageVars>>
notCodecVars == <<routingVars, keyVars, sessionVars, messageVars>>
notKeyVars == <<routingVars, codecVars, sessionVars, messageVars>>
notSessionVars == <<routingVars, codecVars, keyVars, messageVars>>

\* ------------------------------------------------------------------------
\* Bounds of the model
\* ------------------------------------------------------------------------
MaxCities == 3
MaxEdges == 3
MaxTextLen == 4
MaxBits == 3
MaxKeyTasks == 3
MaxChannels == 3
MaxDelivers == 1
MaxTurns == 2
MaxProbes == 1
MaxHandBacks == 3

\* ------------------------------------------------------------------------
\* RoutingManager
\* ------------------------------------------------------------------------
AllCityNames == <<"A", "B", "C", "D", "E">>
UnknownCity == "Z"
NoRequest == [kind |-> "NoRequest"]
NoQuery == [kind |-> "NoQuery"]

\* the city lists a request can carry: the first n names, n = 0..MaxCities
CityLists == {SubSeq(AllCityNames, 1, n) : n \in 0..MaxCities}
QueryNames == {AllCityNames[i] : i \in 1..MaxCities} \cup {UnknownCity}

\* the edges a request can carry: the three edges of the documented scenario,
\* a reversed edge that ties with the lightest one, an edge parallel to the
\* lightest one with the same weight, a self-loop, and an edge to a fourth
\* city; an endpoint >= len(cities) is out of range for the load
Edge(a, b, c) == [u |-> a, v |-> b, w |-> c]
EdgeChoices == {Edge(0, 1, 1), Edge(1, 2, 2), Edge(0, 2, 5),
                Edge(2, 0, 1), Edge(1, 0, 1), Edge(1, 1, 2), Edge(2, 3, 1)}

RECURSIVE SeqsUpTo(_, _)
SeqsUpTo(S, n) ==
    IF n = 0 THEN {<<>>}
    ELSE LET shorter == SeqsUpTo(S, n - 1)
         IN shorter \cup {Append(s, x) : s \in {t \in shorter : Len(t) = n - 1}, x \in S}

EmptyDict == <<>>

\* {city['name']: i for i, city in enumerate(cities)}: a later duplicate wins
CityToIndex(cs) ==
    [nm \in {cs[i] : i \in 1..Len(cs)} |->
        CHOOSE i \in 0..(Len(cs) - 1) :
            /\ cs[i + 1] = nm
            /\ \A j \in 0..(Len(cs) - 1) : cs[j + 1] = nm => j <= i]

IndexToCity(cs) == [i \in 0..(Len(cs) - 1) |-> cs[i + 1]]

EmptyAdjacency(n) == [i \in 0..(n - 1) |-> <<>>]

\* the adjacency loop of load_topology; a missing key raises KeyError and
\* leaves the list as far as it was built
RECURSIVE BuildAdjacency(_, _, _)
BuildAdjacency(adj, es, k) ==
    IF k > Len(es) THEN [raised |-> FALSE, adj |-> adj]
    ELSE LET e == es[k] IN
         IF e.u \notin DOMAIN adj THEN [raised |-> TRUE, adj |-> adj]
         ELSE LET a1 == [adj EXCEPT ![e.u] = Append(@, <<e.v, e.w>>)] IN
              IF e.v \notin DOMAIN a1 THEN [raised |-> TRUE, adj |-> a1]
              ELSE BuildAdjacency([a1 EXCEPT ![e.v] = Append(@, <<e.u, e.w>>)], es, k + 1)

\* find(x) with path compression: the root and the parent array afterwards
RECURSIVE find(_, _)
find(parent, x) ==
    IF parent[x] # x
    THEN LET r == find(parent, parent[x])
         IN [root |-> r.root, parent |-> [r.parent EXCEPT ![x] = r.root]]
    ELSE [root |-> x, parent |-> parent]

\* union that accepts every edge, also one whose ends are already joined
union_NoCycleCheck(parent, rank, x0, y0) ==
    LET fx == find(parent, x0)
        fy == find(fx.parent, y0)
    IN [merged |-> TRUE, parent |-> [fy.parent EXCEPT ![fy.root] = fx.root], rank |-> rank]

\* union(x, y) by rank
union(parent, rank, x0, y0) ==
    LET fx == find(parent, x0)
        fy == find(fx.parent, y0)
        x == fx.root
        y == fy.root
        p == fy.parent
    IN IF x = y THEN [merged |-> FALSE, parent |-> p, rank |-> rank]
       ELSE LET hi == IF rank[x] < rank[y] THEN y ELSE x
                lo == IF rank[x] < rank[y] THEN x ELSE y
            IN [merged |-> TRUE,
                parent |-> [p EXCEPT ![lo] = hi],
                rank |-> IF rank[hi] = rank[lo] THEN [rank EXCEPT ![hi] = @ + 1] ELSE rank]

\* an insertion that puts an edge before the edges of its own weight
RECURSIVE InsertByWeight_TiesReversed(_, _)
InsertByWeight_TiesReversed(s, e) ==
    IF s = <<>> THEN <<e>>
    ELSE IF s[Len(s)].w < e.w THEN Append(s, e)
    ELSE Append(InsertByWeight_TiesReversed(SubSeq(s, 1, Len(s) - 1), e), s[Len(s)])

\* sorted(self.edges, key=lambda x: x['w']): a stable sort
RECURSIVE InsertByWeight(_, _)
InsertByWeight(s, e) ==
    IF s = <<>> THEN <<e>>
    ELSE IF s[Len(s)].w <= e.w THEN Append(s, e)
    ELSE Append(InsertByWeight(SubSeq(s, 1, Len(s) - 1), e), s[Len(s)])

\* the edges taken in input order, without the sort
sorted_edges_Unsorted(es) == es

RECURSIVE sorted_edges(_)
sorted_edges(es) ==
    IF es = <<>> THEN <<>>
    ELSE InsertByWeight(sorted_edges(SubSeq(es, 1, Len(es) - 1)), es[Len(es)])

\* the Kruskal loop: accept an edge when union succeeds, stop at n - 1
RECURSIVE KruskalLoop(_, _, _, _, _, _)
KruskalLoop(sorted, k, parent, rank, mst, n) ==
    IF k > Len(sorted) THEN mst
    ELSE LET un == union(parent, rank, sorted[k].u, sorted[k].v) IN
         IF un.merged
         THEN LET mst1 == Append(mst, sorted[k]) IN
              IF Len(mst1) = n - 1 THEN mst1
              ELSE KruskalLoop(sorted, k + 1, un.parent, un.rank, mst1, n)
         ELSE KruskalLoop(sorted, k + 1, un.parent, un.rank, mst, n)

\* the adjacency of the accepted edges
RECURSIVE MstAdjacency(_, _, _)
MstAdjacency(adj, mst, k) ==
    IF k > Len(mst) THEN adj
    ELSE LET e == mst[k]
             a1 == [adj EXCEPT ![e.u] = Append(@, <<e.v, e.w>>)]
         IN MstAdjacency([a1 EXCEPT ![e.v] = Append(@, <<e.u, e.w>>)], mst, k + 1)

\* _compute_mst without the reset of the adjacency when there are no edges
compute_mst_NoReset(cs, es) ==
    IF es = <<>> \/ cs = <<>>
    THEN [mst_edges |-> <<>>, mst_adjacency |-> EmptyDict]
    ELSE LET n == Len(cs)
             mst == KruskalLoop(sorted_edges(es), 1, [i \in 0..(n - 1) |-> i],
                                [i \in 0..(n - 1) |-> 0], <<>>, n)
         IN [mst_edges |-> mst, mst_adjacency |-> MstAdjacency(EmptyAdjacency(n), mst, 1)]

\* _compute_mst: the accepted edges and their adjacency
compute_mst(cs, es) ==
    IF es = <<>> \/ cs = <<>>
    THEN [mst_edges |-> <<>>, mst_adjacency |-> EmptyAdjacency(Len(cs))]
    ELSE LET n == Len(cs)
             mst == KruskalLoop(sorted_edges(es), 1, [i \in 0..(n - 1) |-> i],
                                [i \in 0..(n - 1) |-> 0], <<>>, n)
         IN [mst_edges |-> mst, mst_adjacency |-> MstAdjacency(EmptyAdjacency(n), mst, 1)]

\* the for loop over the neighbours of one dequeued city
RECURSIVE BfsNeighbors(_, _, _, _, _, _, _)
BfsNeighbors(nbrs, k, path, queue, visited, target_idx, target_city) ==
    IF k > Len(nbrs)
    THEN [found |-> FALSE, raised |-> FALSE, path |-> <<>>, queue |-> queue, visited |-> visited]
    ELSE LET neighbor_idx == nbrs[k][1] IN
         IF neighbor_idx = target_idx
         THEN [found |-> TRUE, raised |-> FALSE, path |-> Append(path, target_city),
               queue |-> queue, visited |-> visited]
         ELSE IF neighbor_idx \notin visited
         THEN IF neighbor_idx \notin DOMAIN index_to_city
              THEN [found |-> FALSE, raised |-> TRUE, path |-> <<>>,
                    queue |-> queue, visited |-> visited]
              ELSE BfsNeighbors(nbrs, k + 1, path,
                                Append(queue, [idx |-> neighbor_idx,
                                               path |-> Append(path, index_to_city[neighbor_idx])]),
                                visited \cup {neighbor_idx}, target_idx, target_city)
         ELSE BfsNeighbors(nbrs, k + 1, path, queue, visited, target_idx, target_city)

\* the while loop run over the adjacency of all input edges instead of the MST
RECURSIVE BfsLoop_FullGraph(_, _, _, _)
BfsLoop_FullGraph(queue, visited, target_idx, target_city) ==
    IF queue = <<>> THEN [raised |-> FALSE, path |-> <<>>]
    ELSE LET cur == Head(queue)
             nbrs == IF cur.idx \in DOMAIN adjacency_list THEN adjacency_list[cur.idx] ELSE <<>>
             r == BfsNeighbors(nbrs, 1, cur.path, Tail(queue), visited, target_idx, target_city)
         IN IF r.raised THEN [raised |-> TRUE, path |-> <<>>]
            ELSE IF r.found THEN [raised |-> FALSE, path |-> r.path]
            ELSE BfsLoop_FullGraph(r.queue, r.visited, target_idx, target_city)

\* the while loop over the queue
RECURSIVE BfsLoop(_, _, _, _)
BfsLoop(queue, visited, target_idx, target_city) ==
    IF queue = <<>> THEN [raised |-> FALSE, path |-> <<>>]
    ELSE LET cur == Head(queue)
             nbrs == IF cur.idx \in DOMAIN mst_adjacency THEN mst_adjacency[cur.idx] ELSE <<>>
             r == BfsNeighbors(nbrs, 1, cur.path, Tail(queue), visited, target_idx, target_city)
         IN IF r.raised THEN [raised |-> TRUE, path |-> <<>>]
            ELSE IF r.found THEN [raised |-> FALSE, path |-> r.path]
            ELSE BfsLoop(r.queue, r.visited, target_idx, target_city)

\* find_route without the check that both names are known: the index lookup
\* raises KeyError for an unknown name
find_route_NoNameCheck(source_city, target_city) ==
    IF source_city \notin DOMAIN city_to_index \/ target_city \notin DOMAIN city_to_index
    THEN [raised |-> TRUE, path |-> <<>>]
    ELSE IF DOMAIN mst_adjacency = {}
    THEN [raised |-> FALSE, path |-> <<>>]
    ELSE LET source_idx == city_to_index[source_city]
             target_idx == city_to_index[target_city]
         IN IF source_idx = target_idx
            THEN [raised |-> FALSE, path |-> <<source_city>>]
            ELSE BfsLoop(<<[idx |-> source_idx, path |-> <<source_city>>]>>,
                         {source_idx}, target_idx, target_city)

\* find_route on the current state: [raised, path]
find_route(source_city, target_city) ==
    IF source_city \notin DOMAIN city_to_index \/ target_city \notin DOMAIN city_to_index
    THEN [raised |-> FALSE, path |-> <<>>]
    ELSE IF DOMAIN mst_adjacency = {}
    THEN [raised |-> FALSE, path |-> <<>>]
    ELSE LET source_idx == city_to_index[source_city]
             target_idx == city_to_index[target_city]
         IN IF source_idx = target_idx
            THEN [raised |-> FALSE, path |-> <<source_city>>]
            ELSE BfsLoop(<<[idx |-> source_idx, path |-> <<source_city>>]>>,
                         {source_idx}, target_idx, target_city)

\* is_connected
is_connected(city1, city2) == Len(find_route(city1, city2).path) > 0


\* ------------------------------------------------------------------------
\* HuffmanEncoder and the message codec of CryptoManager
\* ------------------------------------------------------------------------
\* A text is a sequence of one-character strings, a bitstring a sequence of
\* "0" and "1", a code table a function from symbols to bitstrings.
Alphabet == {"a", "b", "c"}
Bit == {"0", "1"}
NoChar == ""
NoCall == [op |-> "NoCall"]
Texts == SeqsUpTo(Alphabet, MaxTextLen)
BitStrings == SeqsUpTo(Bit, MaxBits)

\* id(...) of the heap entries: the i-th node created gets the address
\* NodeId[i]; addresses are distinct and in no particular order
NumNodes == 2 * Cardinality(Alphabet) - 1
NodeIds == {f \in [1..NumNodes -> 1..NumNodes] :
               \A i, j \in 1..NumNodes : i # j => f[i] # f[j]}

Range(s) == {s[i] : i \in 1..Len(s)}

\* the keys of Counter(text), in the order of first occurrence
RECURSIVE FreqKeys(_)
FreqKeys(text) ==
    IF text = <<>> THEN <<>>
    ELSE LET ks == FreqKeys(SubSeq(text, 1, Len(text) - 1))
             c == text[Len(text)]
         IN IF c \in Range(ks) THEN ks ELSE Append(ks, c)

\* _build_frequency_table: Counter(text)
build_frequency_table(text) ==
    [c \in Range(text) |-> Cardinality({i \in 1..Len(text) : text[i] = c})]

\* a tree node {'char', 'freq', 'left', 'right'}; a child is <<>> for None
\* and <<node>> for a node
LeafNode(c, n) == [char |-> c, freq |-> n, left |-> <<>>, right |-> <<>>]
MergedNode(l, r) == [char |-> NoChar, freq |-> l.freq + r.freq, left |-> <<l>>, right |-> <<r>>]

\* the order of heap entries (count, id, node): ids are distinct, so the node
\* itself is never compared
HeapLess(a, b) == a.count < b.count \/ (a.count = b.count /\ a.id < b.id)

\* the position heappop takes: the least entry
HeapMin(heap) == CHOOSE i \in 1..Len(heap) : \A j \in 1..Len(heap) : j # i => HeapLess(heap[i], heap[j])

RemoveAt(s, i) == SubSeq(s, 1, i - 1) \o SubSeq(s, i + 1, Len(s))

\* the heappush loop over freq.items()
RECURSIVE PushLeaves(_, _, _, _)
PushLeaves(keys, freq, ids, k) ==
    IF k > Len(keys) THEN <<>>
    ELSE <<[count |-> freq[keys[k]], id |-> ids[k], node |-> LeafNode(keys[k], freq[keys[k]])]>>
         \o PushLeaves(keys, freq, ids, k + 1)

\* while len(heap) > 1: pop the two least entries, push their merge
RECURSIVE MergeLoop(_, _, _)
MergeLoop(heap, ids, next) ==
    IF Len(heap) <= 1 THEN heap[1].node
    ELSE LET i == HeapMin(heap)
             left == heap[i].node
             h1 == RemoveAt(heap, i)
             j == HeapMin(h1)
             right == h1[j].node
             h2 == RemoveAt(h1, j)
             merged == MergedNode(left, right)
         IN MergeLoop(Append(h2, [count |-> merged.freq, id |-> ids[next], node |-> merged]),
                      ids, next + 1)

\* _build_huffman_tree: self.tree
build_huffman_tree(keys, freq, ids) ==
    IF Len(keys) = 1
    THEN LeafNode(keys[1], freq[keys[1]])
    ELSE MergeLoop(PushLeaves(keys, freq, ids, 1), ids, Len(keys) + 1)

\* update of a dict by another one
Merge(f, g) == [x \in (DOMAIN f) \cup (DOMAIN g) |-> IF x \in DOMAIN g THEN g[x] ELSE f[x]]

\* _build_codes with a lone symbol given its empty path as code
RECURSIVE build_codes_EmptyCode(_, _)
build_codes_EmptyCode(node, code) ==
    IF node.char # NoChar
    THEN [c \in {node.char} |-> code]
    ELSE Merge(IF node.left # <<>> THEN build_codes_EmptyCode(node.left[1], Append(code, "0")) ELSE EmptyDict,
               IF node.right # <<>> THEN build_codes_EmptyCode(node.right[1], Append(code, "1")) ELSE EmptyDict)

\* _build_codes: the entries added to self.codes below node
RECURSIVE build_codes(_, _)
build_codes(node, code) ==
    IF node.char # NoChar
    THEN [c \in {node.char} |-> IF code # <<>> THEN code ELSE <<"0">>]
    ELSE Merge(IF node.left # <<>> THEN build_codes(node.left[1], Append(code, "0")) ELSE EmptyDict,
               IF node.right # <<>> THEN build_codes(node.right[1], Append(code, "1")) ELSE EmptyDict)

\* ''.join(self.codes[char] for char in text)
RECURSIVE JoinCodes(_, _)
JoinCodes(text, codes) ==
    IF text = <<>> THEN <<>>
    ELSE codes[Head(text)] \o JoinCodes(Tail(text), codes)

\* HuffmanEncoder.encode(text) with the node addresses ids: [bits, table]
encode(text, ids) ==
    IF text = <<>> THEN [bits |-> <<>>, table |-> EmptyDict]
    ELSE LET freq == build_frequency_table(text)
             tree == build_huffman_tree(FreqKeys(text), freq, ids)
             codes == build_codes(tree, <<>>)
         IN [bits |-> JoinCodes(text, codes), table |-> codes]

\* the for loop of decode: the decoded text and the bits left in current_code
RECURSIVE DecodeLoop(_, _, _, _)
DecodeLoop(bits, codes, decoded, current_code) ==
    IF bits = <<>> THEN [text |-> decoded, current_code |-> current_code]
    ELSE LET cur == Append(current_code, Head(bits))
             hit == {c \in DOMAIN codes : codes[c] = cur}
         IN IF hit # {}
            THEN DecodeLoop(Tail(bits), codes, Append(decoded, CHOOSE c \in hit : TRUE), <<>>)
            ELSE DecodeLoop(Tail(bits), codes, decoded, cur)

\* HuffmanEncoder.decode(encoded_text, codes): it has no raise statement
decode(encoded_text, codes) ==
    IF encoded_text = <<>> \/ DOMAIN codes = {}
    THEN [raised |-> FALSE, text |-> <<>>, current_code |-> <<>>]
    ELSE LET r == DecodeLoop(encoded_text, codes, <<>>, <<>>)
         IN [raised |-> FALSE, text |-> r.text, current_code |-> r.current_code]

\* Fernet(key).encrypt(data) followed by base64: a token only the same key opens
fernet_encrypt(key, data) == [b64 |-> [fernet |-> key, data |-> data]]

\* base64 decoding followed by Fernet(key).decrypt(token): InvalidToken for
\* another key
fernet_decrypt(key, encrypted_b64) ==
    IF encrypted_b64.b64.fernet = key
    THEN [raised |-> FALSE, data |-> encrypted_b64.b64.data]
    ELSE [raised |-> TRUE, data |-> <<>>]

\* _encrypt_message_sync(message, key)
encrypt_message(message, key, ids) ==
    LET enc == encode(message, ids)
    IN [encrypted_data |-> fernet_encrypt(key, enc.bits),
        huffman_encoded |-> enc.bits,
        huffman_codes |-> enc.table]

\* decrypt_message(encrypted_b64, key, huffman_codes): any exception becomes
\* ValueError
decrypt_message(encrypted_b64, key, huffman_codes) ==
    LET aes == fernet_decrypt(key, encrypted_b64) IN
    IF aes.raised THEN [raised |-> TRUE, text |-> <<>>]
    ELSE LET d == decode(aes.data, huffman_codes)
         IN [raised |-> d.raised, text |-> d.text]

\* the code tables a decode call is given: the empty table and the tables
\* that give distinct codes of one or two bits to some symbols
CodeTables ==
    {EmptyDict} \cup
    {t \in UNION {[S -> (SeqsUpTo(Bit, 2) \ {<<>>})] : S \in (SUBSET Alphabet) \ {{}}} :
        \A x, y \in DOMAIN t : x # y => t[x] # t[y]}

CodecKeys == {"k1", "k2"}

CodecRequests ==
    [op : {"encode"}, text : Texts, ids : NodeIds]
    \cup [op : {"decode"}, bits : BitStrings, table : CodeTables]
    \cup [op : {"decrypt"}, bits : BitStrings, table : CodeTables, key : CodecKeys, with : CodecKeys]

CodecIdle ==
    /\ codecRequest = NoRequest
    /\ codecCall = NoCall

\* encoder.encode(text)
Encode ==
    /\ codecRequest # NoRequest
    /\ codecRequest.op = "encode"
    /\ LET r == encode(codecRequest.text, codecRequest.ids)
       IN codecCall' = [op |-> "encode", text |-> codecRequest.text,
                        bits |-> r.bits, table |-> r.table]
    /\ codecRequest' = NoRequest
    /\ UNCHANGED notCodecVars

\* decoder.decode(bits, table) on the result of the encode call before it
DecodeEncoded ==
    /\ codecCall.op = "encode"
    /\ codecCall' = [op |-> "roundtrip", text |-> codecCall.text,
                     bits |-> codecCall.bits, table |-> codecCall.table,
                     result |-> decode(codecCall.bits, codecCall.table)]
    /\ UNCHANGED codecRequest
    /\ UNCHANGED notCodecVars

\* decoder.decode(bits, table) on a bitstring and a table received from outside
Decode ==
    /\ codecRequest # NoRequest
    /\ codecRequest.op = "decode"
    /\ codecCall' = [op |-> "decode", bits |-> codecRequest.bits, table |-> codecRequest.table,
                     result |-> decode(codecRequest.bits, codecRequest.table)]
    /\ codecRequest' = NoRequest
    /\ UNCHANGED notCodecVars

\* crypto_manager.decrypt_message(token, key, table) on a token made with the
\* key `with` for the bitstring bits
DecryptMessage ==
    /\ codecRequest # NoRequest
    /\ codecRequest.op = "decrypt"
    /\ LET r == decrypt_message(fernet_encrypt(codecRequest.with, codecRequest.bits),
                                codecRequest.key, codecRequest.table)
       IN codecCall' = [op |-> "decrypt", bits |-> codecRequest.bits, table |-> codecRequest.table,
                        authentic |-> (codecRequest.with = codecRequest.key),
                        result |-> [raised |-> r.raised, text |-> r.text, current_code |-> <<>>]]
    /\ codecRequest' = NoRequest
    /\ UNCHANGED notCodecVars


\* ------------------------------------------------------------------------
\* CryptoManager: shared keys
\* ------------------------------------------------------------------------
\* A city name is a sequence of characters here, so that the f-string of the
\* cache key and the comparison of names are computed as Python computes them.
CharCode == ("-" :> 45) @@ ("A" :> 65) @@ ("B" :> 66) @@ ("C" :> 67) @@ ("M" :> 77)
            @@ ("Z" :> 90) @@ ("_" :> 95) @@ ("d" :> 100) @@ ("i" :> 105) @@ ("m" :> 109)
            @@ ("n" :> 110) @@ ("o" :> 111) @@ ("r" :> 114) @@ ("t" :> 116)
KeyCities == {<<"A">>, <<"B">>, <<"C">>}
KeyTasks == 1..MaxKeyTasks
NoKey == 0
IdleTask == [pc |-> "idle", city1 |-> <<>>, city2 |-> <<>>, result |-> NoKey]

\* city1 < city2 on Python strings: by code point, a proper prefix first
RECURSIVE StrLess(_, _)
StrLess(a, b) ==
    IF b = <<>> THEN FALSE
    ELSE IF a = <<>> THEN TRUE
    ELSE IF CharCode[Head(a)] # CharCode[Head(b)] THEN CharCode[Head(a)] < CharCode[Head(b)]
    ELSE StrLess(Tail(a), Tail(b))

\* the cache key built from the two names in the order given
KeyPair_AsGiven(city1, city2) == city1 \o <<"-">> \o city2

\* key_pair = f"{city1}-{city2}" if city1 < city2 else f"{city2}-{city1}"
KeyPair(city1, city2) ==
    IF StrLess(city1, city2) THEN city1 \o <<"-">> \o city2
    ELSE city2 \o <<"-">> \o city1

\* get_shared_key: self.shared_secrets.get(key_pair)
get_shared_key(secrets, city1, city2) ==
    IF KeyPair(city1, city2) \in DOMAIN secrets THEN secrets[KeyPair(city1, city2)] ELSE NoKey

Put(d, k, v) == [x \in (DOMAIN d) \cup {k} |-> IF x = k THEN v ELSE d[x]]

KeyInit ==
    /\ shared_secrets = EmptyDict
    /\ keyTask = [t \in KeyTasks |-> IdleTask]
    /\ keysDerived = <<>>

\* establish_shared_key(city1, city2) up to its await: the cached key is
\* returned, or the exchange is handed to the thread pool
EstablishStart(t, c1, c2) ==
    /\ keyTask[t].pc = "idle"
    /\ IF t = 1 THEN TRUE ELSE keyTask[t - 1].pc # "idle"
    /\ LET existing_key == get_shared_key(shared_secrets, c1, c2) IN
       IF existing_key # NoKey
       THEN keyTask' = [keyTask EXCEPT ![t] = [pc |-> "done", city1 |-> c1, city2 |-> c2,
                                              result |-> existing_key]]
       ELSE keyTask' = [keyTask EXCEPT ![t] = [pc |-> "exchange", city1 |-> c1, city2 |-> c2,
                                              result |-> NoKey]]
    /\ UNCHANGED <<shared_secrets, keysDerived>>
    /\ UNCHANGED notKeyVars

\* _key_exchange_sync in the thread pool: two fresh random exponents give a
\* key no earlier run gave; it is stored under the pair's cache key and
\* returned to the caller
KeyExchange(t) ==
    /\ keyTask[t].pc = "exchange"
    /\ LET key1 == Len(keysDerived) + 1
           key_pair == KeyPair(keyTask[t].city1, keyTask[t].city2)
       IN /\ shared_secrets' = Put(shared_secrets, key_pair, key1)
          /\ keysDerived' = Append(keysDerived, key_pair)
          /\ keyTask' = [keyTask EXCEPT ![t].pc = "done", ![t].result = key1]
    /\ UNCHANGED notKeyVars

\* an establish_shared_key call made while no other call is awaiting its
\* exchange (each call awaited before the next, as the test scripts do)
EstablishStartAwaited(t, c1, c2) ==
    /\ \A u \in KeyTasks : keyTask[u].pc # "exchange"
    /\ EstablishStart(t, c1, c2)

\* ------------------------------------------------------------------------
\* ConnectionManager: the session registry
\* ------------------------------------------------------------------------
\* A channel is one WebSocket object, named by a number; channels are
\* compared by identity.
Channels == 1..MaxChannels
SessionCities == {"A", "B", "C", "Monitor_Admin"}
NoChannel == 0
NoCity == "None"
NoDisconnect == [city |-> NoCity, channel |-> NoChannel, before |-> NoChannel,
                 after |-> NoChannel]

\* where the websocket_endpoint coroutine of a channel is:
\*   "new"      the client has not connected yet
\*   "accept"   in connect, awaiting websocket.accept()
\*   "closing"  in connect, awaiting old_websocket.close()
\*   "open"     connect returned, awaiting receive_text() in the message loop
\*   "pong"     in the message loop, awaiting the send of a pong
\*   "gone"     the endpoint has ended
\* inbound is the last payload its message loop has taken up; keepalive is
\* where the _keepalive_loop task of the channel is:
\*   "none"     not created
\*   "sleeping" awaiting asyncio.sleep(keepalive_interval)
\*   "sending"  awaiting the send_text of a heartbeat
\*   "ended"    left its loop by a break
\* turns counts the payloads taken up by the new-style turns of its message
\* loop and probes counts the heartbeats the keepalive loop has sent
NoPayload == [json |-> "none", type |-> "none", to |-> "", message |-> "missing",
              timestamp |-> "None"]
NewChannel == [city |-> NoCity, pc |-> "new", old |-> NoChannel, closeCalls |-> 0,
               inbound |-> NoPayload, turns |-> 0, keepalive |-> "none", probes |-> 0]

Del(d, k) == [x \in (DOMAIN d) \ {k} |-> d[x]]

\* list.remove(x): the list without the first occurrence of x
RECURSIVE RemoveFirst(_, _)
RemoveFirst(l, x) ==
    IF l = <<>> THEN <<>>
    ELSE IF Head(l) = x THEN Tail(l)
    ELSE <<Head(l)>> \o RemoveFirst(Tail(l), x)

\* active_connections.get(city)
RegisteredIn(active, city) == IF city \in DOMAIN active THEN active[city] ELSE NoChannel

\* the registry as one value
Registry == [active |-> active_connections, conns |-> city_connections,
             keepalive |-> keepalive_tasks]

\* disconnect that deletes the city's entry whatever channel is registered
disconnect_AnyChannel(reg, city, websocket) ==
    [active |-> IF city \in DOMAIN reg.active THEN Del(reg.active, city) ELSE reg.active,
     conns |-> IF city \in DOMAIN reg.conns
               THEN LET l == RemoveFirst(reg.conns[city], websocket)
                    IN IF l = <<>> THEN Del(reg.conns, city)
                       ELSE [reg.conns EXCEPT ![city] = l]
               ELSE reg.conns,
     keepalive |-> reg.keepalive \ {websocket}]

\* disconnect that stops the keepalive of the channel registered for the city
disconnect_StopsRegistered(reg, city, websocket) ==
    [active |-> IF city \in DOMAIN reg.active /\ reg.active[city] = websocket
                THEN Del(reg.active, city) ELSE reg.active,
     conns |-> IF city \in DOMAIN reg.conns
               THEN LET l == RemoveFirst(reg.conns[city], websocket)
                    IN IF l = <<>> THEN Del(reg.conns, city)
                       ELSE [reg.conns EXCEPT ![city] = l]
               ELSE reg.conns,
     keepalive |-> reg.keepalive \ {RegisteredIn(reg.active, city)}]

\* disconnect(city, websocket): the registry after the call
disconnect(reg, city, websocket) ==
    [active |-> IF city \in DOMAIN reg.active /\ reg.active[city] = websocket
                THEN Del(reg.active, city) ELSE reg.active,
     conns |-> IF city \in DOMAIN reg.conns
               THEN LET l == RemoveFirst(reg.conns[city], websocket)
                    IN IF l = <<>> THEN Del(reg.conns, city)
                       ELSE [reg.conns EXCEPT ![city] = l]
               ELSE reg.conns,
     keepalive |-> reg.keepalive \ {websocket}]

\* the tail of connect: register the channel and start its keepalive
\* (_start_keepalive stops a task of the same channel first, then adds one)
register(reg, city, websocket) ==
    [active |-> Put(reg.active, city, websocket),
     conns |-> IF city \in DOMAIN reg.conns
               THEN [reg.conns EXCEPT ![city] = Append(@, websocket)]
               ELSE Put(reg.conns, city, <<websocket>>),
     keepalive |-> reg.keepalive \cup {websocket}]

\* the record of a disconnect(city, websocket) call that left the registry reg
DisconnectRecord(city, websocket, reg) ==
    [city |-> city, channel |-> websocket,
     before |-> RegisteredIn(active_connections, city),
     after |-> RegisteredIn(reg.active, city)]

SessionInit ==
    /\ active_connections = EmptyDict
    /\ city_connections = EmptyDict
    /\ keepalive_tasks = {}
    /\ channel = [ws \in Channels |-> NewChannel]
    /\ registrations = [c \in SessionCities |-> <<>>]
    /\ disconnectCalls = {}
    /\ lastDisconnect = NoDisconnect

\* a client opens /ws/{city}: websocket_endpoint calls connect, which awaits
\* websocket.accept()
ConnectRequest(ws, city) ==
    /\ channel[ws].pc = "new"
    /\ IF ws = 1 THEN TRUE ELSE channel[ws - 1].pc # "new"
    /\ channel' = [channel EXCEPT ![ws].city = city, ![ws].pc = "accept"]
    /\ UNCHANGED <<active_connections, city_connections, keepalive_tasks,
                   registrations, disconnectCalls, lastDisconnect>>
    /\ UNCHANGED notSessionVars

\* accept() returns; connect runs on to its next await: with a channel
\* registered for the city it calls close() on that channel and is suspended
\* there, otherwise it registers the new channel and returns
ConnectAccepted(ws) ==
    /\ channel[ws].pc = "accept"
    /\ LET city == channel[ws].city IN
       IF city \in DOMAIN active_connections
       THEN LET old_websocket == active_connections[city] IN
            /\ channel' = [channel EXCEPT ![ws].pc = "closing", ![ws].old = old_websocket,
                                          ![old_websocket].closeCalls = @ + 1]
            /\ UNCHANGED <<active_connections, city_connections, keepalive_tasks,
                           registrations>>
       ELSE LET reg == register(Registry, city, ws) IN
            /\ active_connections' = reg.active
            /\ city_connections' = reg.conns
            /\ keepalive_tasks' = reg.keepalive
            /\ registrations' = [registrations EXCEPT ![city] = Append(@, ws)]
            /\ channel' = [channel EXCEPT ![ws].pc = "open", ![ws].keepalive = "sleeping"]
    /\ UNCHANGED <<disconnectCalls, lastDisconnect>>
    /\ UNCHANGED notSessionVars

\* accept() raises: connect re-raises, the endpoint's handler calls
\* disconnect(city, websocket) and the endpoint ends
ConnectAcceptFailed(ws) ==
    /\ channel[ws].pc = "accept"
    /\ LET city == channel[ws].city
           reg == disconnect(Registry, city, ws)
       IN /\ active_connections' = reg.active
          /\ city_connections' = reg.conns
          /\ keepalive_tasks' = reg.keepalive
          /\ lastDisconnect' = DisconnectRecord(city, ws, reg)
    /\ disconnectCalls' = disconnectCalls \cup {ws}
    /\ channel' = [channel EXCEPT ![ws].pc = "gone"]
    /\ UNCHANGED registrations
    /\ UNCHANGED notSessionVars

\* old_websocket.close() returns or raises (the except passes); connect calls
\* disconnect(city, old_websocket), registers the new channel and returns
ConnectClosedOld(ws) ==
    /\ channel[ws].pc = "closing"
    /\ LET city == channel[ws].city
           old_websocket == channel[ws].old
           evicted == disconnect(Registry, city, old_websocket)
           reg == register(evicted, city, ws)
       IN /\ active_connections' = reg.active
          /\ city_connections' = reg.conns
          /\ keepalive_tasks' = reg.keepalive
          /\ lastDisconnect' = DisconnectRecord(city, old_websocket, evicted)
          /\ disconnectCalls' = disconnectCalls \cup {old_websocket}
          /\ registrations' = [registrations EXCEPT ![city] = Append(@, ws)]
    /\ channel' = [channel EXCEPT ![ws].pc = "open", ![ws].old = NoChannel,
                                  ![ws].keepalive = "sleeping"]
    /\ UNCHANGED notSessionVars

\* the endpoint of the channel is in receive_text(): its connect has returned
\* and it is not awaiting the broadcast of a message it received
Receiving(ws) ==
    /\ channel[ws].pc = "open"
    /\ ~(broadcast.pc = "sending" /\ broadcast.ws = ws)

\* the endpoint that ends on a failed receive_text() without the call of
\* disconnect
EndpointDisconnect_NoCleanup(ws) ==
    /\ Receiving(ws)
    /\ channel' = [channel EXCEPT ![ws].pc = "gone"]
    /\ UNCHANGED <<active_connections, city_connections, keepalive_tasks,
                   registrations, disconnectCalls, lastDisconnect>>
    /\ UNCHANGED notSessionVars

\* receive_text() fails on an open channel (the client left, or the server
\* closed the channel): the endpoint calls disconnect(city, websocket) and ends
EndpointDisconnect(ws) ==
    /\ Receiving(ws)
    /\ LET city == channel[ws].city
           reg == disconnect(Registry, city, ws)
       IN /\ active_connections' = reg.active
          /\ city_connections' = reg.conns
          /\ keepalive_tasks' = reg.keepalive
          /\ lastDisconnect' = DisconnectRecord(city, ws, reg)
    /\ disconnectCalls' = disconnectCalls \cup {ws}
    /\ channel' = [channel EXCEPT ![ws].pc = "gone"]
    /\ UNCHANGED registrations
    /\ UNCHANGED notSessionVars

\* ------------------------------------------------------------------------
\* ConnectionManager: relay of encrypted messages
\* ------------------------------------------------------------------------
MonitorAdmin == "Monitor_Admin"

\* the characters of the city names that are used as key-pair names
NameChars ==
    ("A" :> <<"A">>) @@ ("B" :> <<"B">>) @@ ("C" :> <<"C">>) @@ ("Z" :> <<"Z">>)
    @@ ("Monitor_Admin" :> <<"M", "o", "n", "i", "t", "o", "r", "_", "A", "d", "m", "i", "n">>)

NoMessage == [type |-> "None"]

\* the order in which the registry is walked
CityOrder == <<"A", "B", "C", MonitorAdmin>>

\* list(self.active_connections.items())
RECURSIVE Items(_, _)
Items(active, k) ==
    IF k > Len(CityOrder) THEN <<>>
    ELSE IF CityOrder[k] \in DOMAIN active
    THEN <<<<CityOrder[k], active[CityOrder[k]]>>>> \o Items(active, k + 1)
    ELSE Items(active, k + 1)
NoSend == [city |-> NoCity, ws |-> NoChannel, state |-> "none", evict |-> NoChannel]

IdleRelay ==
    [pc |-> "idle", ws |-> NoChannel, from_city |-> NoCity, to_city |-> NoCity,
     message |-> <<>>, route |-> <<>>, shared_key |-> NoKey, derived |-> FALSE,
     envelope |-> NoMessage, sends |-> <<>>, monitor |-> NoSend, evicted |-> {},
     outcome |-> "none",
     \* what the task found when it looked: the number of cities, the route
     \* and the requester's channel at its start, the channels of the route
     \* cities when gather started, the channel of the monitoring sink when
     \* gather returned
     cities_at_start |-> 0, found |-> NoQuery, requester_at_start |-> NoChannel,
     active_at_send |-> EmptyDict, monitor_at_return |-> NoChannel,
     \* what kind of JSON value the message of the request is, and the
     \* requester's channel when an exception reached the outer handler
     message_type |-> "text", requester_at_failure |-> NoChannel,
     \* with two requests on one channel: the place of this request in the
     \* order of receipt, the task of the other request while this one runs,
     \* and where the task of the earlier request was when this one came in
     seq |-> 1, later |-> <<>>, received_at |-> "none"]

\* {"type": "error", "message": ...}: kind names which of the three texts
ErrorMessage(kind) == [type |-> "error", message |-> kind]

\* the encrypted_message dict of send_encrypted_message
Envelope(from_city, to_city, route, message, enc) ==
    [type |-> "encrypted_message", from |-> from_city, to |-> to_city, route |-> route,
     original_message |-> message, huffman_encoded |-> enc.huffman_encoded,
     huffman_codes |-> enc.huffman_codes, encrypted_data |-> enc.encrypted_data,
     timestamp |-> "loop.time"]

\* one send_text call
Sent(ws, city, msg, by) == [ws |-> ws, city |-> city, msg |-> msg, by |-> by]

\* an error reply that goes to every registered channel
ErrorReply_ToAll(log, active, from_city, kind) ==
    log \o [i \in 1..Len(Items(active, 1)) |->
               Sent(Items(active, 1)[i][2], Items(active, 1)[i][1], ErrorMessage(kind), "relay")]

\* the error reply: sent to the channel registered for from_city, if any
ErrorReply(log, active, from_city, kind) ==
    IF from_city \in DOMAIN active
    THEN Append(log, Sent(active[from_city], from_city, ErrorMessage(kind), "relay"))
    ELSE log

\* the outer handler that lets the exception go on to the caller of the task
RelayFailed_Reraise(r, log, active) ==
    [relay |-> [r EXCEPT !.pc = "done", !.outcome = "raised",
                         !.requester_at_failure = RegisteredIn(active, r.from_city)],
     log |-> log]

\* the outer handler of send_encrypted_message: the exception is logged, an
\* error message goes to the channel registered for from_city, if any, and
\* the task returns
RelayFailed(r, log, active) ==
    [relay |-> [r EXCEPT !.pc = "done", !.outcome = "failed",
                         !.requester_at_failure = RegisteredIn(active, r.from_city)],
     log |-> ErrorReply(log, active, r.from_city, "failed")]

\* the recipients and plaintexts of the send_encrypted requests
RelayTargets == {"", "B", "C", MonitorAdmin, UnknownCity}
RelayTexts == {<<>>, <<"a", "b">>}

\* the loaded topologies of the relay scenarios: the chain A - B - C, and
\* A - Monitor_Admin with B in a component of its own
RelayTopologies ==
    {[kind |-> "Request", cities |-> <<"A", "B", "C">>, edges |-> <<Edge(0, 1, 1), Edge(1, 2, 2)>>],
     [kind |-> "Request", cities |-> <<"A", "B", MonitorAdmin>>, edges |-> <<Edge(0, 2, 1)>>]}

\* the record of the disconnect calls of a fan-out, last call last
RECURSIVE DisconnectAll(_, _, _)
DisconnectAll(st, pairs, k) ==
    IF k > Len(pairs) THEN st
    ELSE LET city == pairs[k][1]
             websocket == pairs[k][2]
             reg == disconnect(st.reg, city, websocket)
         IN DisconnectAll([reg |-> reg,
                           calls |-> st.calls \cup {websocket},
                           last |-> [city |-> city, channel |-> websocket,
                                     before |-> RegisteredIn(st.reg.active, city),
                                     after |-> RegisteredIn(reg.active, city)]],
                          pairs, k + 1)

\* websocket_endpoint receives {"type": "send_encrypted", "to": ..., "message": ...}:
\* without a recipient or without a text the loop continues, otherwise the
\* send_encrypted_message task is created
EndpointSendEncrypted(ws, to_city, message) ==
    /\ Receiving(ws)
    /\ relay.pc = "idle"
    /\ relay' = [relay EXCEPT !.pc = IF to_city = "" \/ message = <<>> THEN "dropped" ELSE "created",
                              !.ws = ws, !.from_city = channel[ws].city,
                              !.to_city = to_city, !.message = message]
    /\ UNCHANGED <<sendLog, deliver, broadcast>>
    /\ UNCHANGED <<routingVars, codecVars, keyVars, sessionVars>>

\* websocket_endpoint receives a second send_encrypted for the same recipient
\* on the channel of a request whose task has been created: a second task is
\* created, whatever the first task is doing
EndpointSendEncryptedSecond(ws, message) ==
    /\ Receiving(ws)
    /\ relay.pc \notin {"idle", "dropped"}
    /\ relay.later = <<>>
    /\ ws = relay.ws
    /\ channel[ws].city = relay.from_city
    /\ message # <<>>
    /\ relay' = [relay EXCEPT !.later =
                     <<[IdleRelay EXCEPT !.pc = "created", !.seq = 2, !.ws = ws,
                                         !.from_city = channel[ws].city,
                                         !.to_city = relay.to_city, !.message = message,
                                         !.received_at = relay.pc]>>]
    /\ UNCHANGED <<sendLog, deliver, broadcast>>
    /\ UNCHANGED <<routingVars, codecVars, keyVars, sessionVars>>

\* the event loop resumes the other send_encrypted_message task: relay is the
\* task that runs next, relay.later the one that waits; a task that was
\* created and has not started yet starts before a task is resumed
EventLoopSwitch ==
    /\ relay.later # <<>>
    /\ relay.pc # "created"
    /\ relay' = [relay.later[1] EXCEPT !.later = <<[relay EXCEPT !.later = <<>>]>>]
    /\ UNCHANGED <<sendLog, deliver, broadcast>>
    /\ UNCHANGED <<routingVars, codecVars, keyVars, sessionVars>>

\* send_encrypted_message from its start to its first await: the topology
\* check, the route, the cache lookup of establish_shared_key
RelayStart ==
    /\ relay.pc = "created"
    /\ LET found == IF Len(cities) = 0 THEN NoQuery
                    ELSE find_route(relay.from_city, relay.to_city)
           seen == [relay EXCEPT !.cities_at_start = Len(cities), !.found = found,
                                 !.requester_at_start =
                                     RegisteredIn(active_connections, relay.from_city)]
           failed == RelayFailed(relay, sendLog, active_connections)
           failed_route == RelayFailed(seen, sendLog, active_connections)
       IN
       IF relay.message_type = "dict"
       THEN \* message[:50] of the first log line raises TypeError
            /\ sendLog' = failed.log
            /\ relay' = failed.relay
       ELSE
       IF Len(cities) = 0
       THEN /\ sendLog' = ErrorReply(sendLog, active_connections, relay.from_city, "topology")
            /\ relay' = [seen EXCEPT !.pc = "done", !.outcome = "error"]
       ELSE IF found.raised
            THEN /\ sendLog' = failed_route.log
                 /\ relay' = failed_route.relay
            ELSE IF found.path = <<>>
            THEN /\ sendLog' = ErrorReply(sendLog, active_connections, relay.from_city, "route")
                 /\ relay' = [seen EXCEPT !.pc = "done", !.outcome = "error"]
            ELSE LET existing_key == get_shared_key(shared_secrets, NameChars[relay.from_city],
                                                    NameChars[relay.to_city])
                 IN /\ relay' = [seen EXCEPT !.pc = IF existing_key # NoKey THEN "encrypt" ELSE "key",
                                             !.route = found.path,
                                             !.shared_key = existing_key]
                    /\ UNCHANGED sendLog
    /\ UNCHANGED <<deliver, broadcast>>
    /\ UNCHANGED <<routingVars, codecVars, keyVars, sessionVars>>

\* key_exchange returns from the thread pool: the fresh key is in the cache
\* and encrypt_message is handed to the thread pool
RelayKeyExchanged ==
    /\ relay.pc = "key"
    /\ LET key1 == Len(keysDerived) + 1
           key_pair == KeyPair(NameChars[relay.from_city], NameChars[relay.to_city])
       IN /\ shared_secrets' = Put(shared_secrets, key_pair, key1)
          /\ keysDerived' = Append(keysDerived, key_pair)
          /\ relay' = [relay EXCEPT !.pc = "encrypt", !.shared_key = key1, !.derived = TRUE]
    /\ UNCHANGED <<sendLog, deliver, broadcast, keyTask>>
    /\ UNCHANGED <<routingVars, codecVars, sessionVars>>

\* the sends issued from the last city of the route back to the first
RECURSIVE StartSends_Reversed(_, _, _, _)
StartSends_Reversed(route, k, active, msg) ==
    IF k > Len(route) THEN [sends |-> <<>>, log |-> <<>>]
    ELSE LET city == route[k]
             rest == StartSends_Reversed(route, k + 1, active, msg)
         IN IF city \in DOMAIN active
            THEN [sends |-> <<[city |-> city, ws |-> active[city], state |-> "pending",
                               evict |-> NoChannel]>> \o rest.sends,
                  log |-> rest.log \o <<Sent(active[city], city, msg, "relay")>>]
            ELSE [sends |-> <<[city |-> city, ws |-> NoChannel, state |-> "absent",
                               evict |-> NoChannel]>> \o rest.sends,
                  log |-> rest.log]

\* send_to_city up to its await, for the cities of route from position k on
RECURSIVE StartSends(_, _, _, _)
StartSends(route, k, active, msg) ==
    IF k > Len(route) THEN [sends |-> <<>>, log |-> <<>>]
    ELSE LET city == route[k]
             rest == StartSends(route, k + 1, active, msg)
         IN IF city \in DOMAIN active
            THEN [sends |-> <<[city |-> city, ws |-> active[city], state |-> "pending",
                               evict |-> NoChannel]>> \o rest.sends,
                  log |-> <<Sent(active[city], city, msg, "relay")>> \o rest.log]
            ELSE [sends |-> <<[city |-> city, ws |-> NoChannel, state |-> "absent",
                               evict |-> NoChannel]>> \o rest.sends,
                  log |-> rest.log]

\* sends issued ahead of the sends issued before them
IssueSends_Ahead(log, sent) == sent \o log

\* the send_text calls of a gather follow the calls made before it
IssueSends(log, sent) == log \o sent

\* encrypt_message returns: the envelope is built and gather starts one
\* send_to_city per city of the route
RelayEncrypted(ids) ==
    /\ relay.pc = "encrypt"
    /\ LET enc == encrypt_message(relay.message, relay.shared_key, ids)
           encrypted_message == Envelope(relay.from_city, relay.to_city, relay.route,
                                         relay.message, enc)
           started == StartSends(relay.route, 1, active_connections, encrypted_message)
           failed == RelayFailed(relay, sendLog, active_connections)
       IN IF relay.message_type = "nested_list"
          THEN \* Counter(message) raises TypeError: a list is not hashable
               /\ relay' = failed.relay
               /\ sendLog' = failed.log
          ELSE
          /\ relay' = [relay EXCEPT !.pc = "sending", !.envelope = encrypted_message,
                                    !.sends = started.sends, !.outcome = "relayed",
                                    !.active_at_send =
                                        [c \in (DOMAIN active_connections) \cap Range(relay.route)
                                            |-> active_connections[c]]]
          /\ sendLog' = IssueSends(sendLog, started.log)
    /\ UNCHANGED <<deliver, broadcast>>
    /\ UNCHANGED <<routingVars, codecVars, keyVars, sessionVars>>

\* the channel send_to_city returns for eviction: self.active_connections.get(city)
EvictionTarget(active, send) == RegisteredIn(active, send.city)

\* one send of the relay resolves: it returns, or raises an exception whose
\* text names a disconnect, or raises another exception
RelaySendResolved(i, result) ==
    /\ relay.pc = "sending"
    /\ i \in 1..Len(relay.sends)
    /\ relay.sends[i].state = "pending"
    /\ relay' = [relay EXCEPT !.sends[i].state = result,
                              !.sends[i].evict = IF result = "disconnect"
                                                 THEN EvictionTarget(active_connections, relay.sends[i])
                                                 ELSE NoChannel]
    /\ UNCHANGED <<sendLog, deliver, broadcast>>
    /\ UNCHANGED <<routingVars, codecVars, keyVars, sessionVars>>

\* failed_cities: the (city, channel) results with a channel, in route order
RECURSIVE FailedCities(_, _)
FailedCities(sends, k) ==
    IF k > Len(sends) THEN <<>>
    ELSE IF sends[k].evict # NoChannel
    THEN <<<<sends[k].city, sends[k].evict>>>> \o FailedCities(sends, k + 1)
    ELSE FailedCities(sends, k + 1)

\* the test before the send to the monitoring sink, without the route test
MonitorDue_AlsoOnRoute(active, route) == MonitorAdmin \in DOMAIN active

\* 'Monitor_Admin' in self.active_connections and 'Monitor_Admin' not in route
MonitorDue(active, route) == MonitorAdmin \in DOMAIN active /\ MonitorAdmin \notin Range(route)

\* gather returns at the first send that has resolved
GatherDone_AnySend(sends) == \E i \in 1..Len(sends) : sends[i].state # "pending"

\* gather returns when every send has resolved
GatherDone(sends) == \A i \in 1..Len(sends) : sends[i].state # "pending"

\* gather has returned: the failed channels are disconnected, then the
\* envelope is sent to Monitor_Admin when it is registered and not on the route
RelayGathered ==
    /\ relay.pc = "sending"
    /\ GatherDone(relay.sends)
    /\ LET failed_cities == FailedCities(relay.sends, 1)
           st == DisconnectAll([reg |-> Registry, calls |-> disconnectCalls,
                                last |-> lastDisconnect], failed_cities, 1)
       IN /\ active_connections' = st.reg.active
          /\ city_connections' = st.reg.conns
          /\ keepalive_tasks' = st.reg.keepalive
          /\ disconnectCalls' = st.calls
          /\ lastDisconnect' = st.last
          /\ IF MonitorDue(st.reg.active, relay.route)
             THEN /\ relay' = [relay EXCEPT !.pc = "monitor",
                                  !.evicted = Range(failed_cities),
                                  !.monitor_at_return = RegisteredIn(st.reg.active, MonitorAdmin),
                                  !.monitor = [city |-> MonitorAdmin, ws |-> st.reg.active[MonitorAdmin],
                                               state |-> "pending", evict |-> NoChannel]]
                  /\ sendLog' = Append(sendLog, Sent(st.reg.active[MonitorAdmin], MonitorAdmin,
                                                     relay.envelope, "relay"))
             ELSE /\ relay' = [relay EXCEPT !.pc = "done", !.evicted = Range(failed_cities),
                                             !.monitor_at_return = RegisteredIn(st.reg.active, MonitorAdmin)]
                  /\ UNCHANGED sendLog
    /\ UNCHANGED <<channel, registrations, deliver, broadcast>>
    /\ UNCHANGED <<routingVars, codecVars, keyVars>>

\* the send to Monitor_Admin resolves; on a disconnect failure
\* disconnect('Monitor_Admin', self.active_connections.get('Monitor_Admin'))
RelayMonitorResolved(result) ==
    /\ relay.pc = "monitor"
    /\ LET target == IF result = "disconnect"
                     THEN EvictionTarget(active_connections, relay.monitor)
                     ELSE NoChannel
           st == DisconnectAll([reg |-> Registry, calls |-> disconnectCalls,
                                last |-> lastDisconnect],
                               IF result = "disconnect" THEN <<<<MonitorAdmin, target>>>> ELSE <<>>, 1)
       IN /\ active_connections' = st.reg.active
          /\ city_connections' = st.reg.conns
          /\ keepalive_tasks' = st.reg.keepalive
          /\ disconnectCalls' = st.calls
          /\ lastDisconnect' = st.last
          /\ relay' = [relay EXCEPT !.pc = "done", !.monitor.state = result,
                                    !.monitor.evict = target,
                                    !.evicted = IF target # NoChannel
                                                THEN @ \cup {<<MonitorAdmin, target>>} ELSE @]
    /\ UNCHANGED <<channel, registrations, sendLog, deliver, broadcast>>
    /\ UNCHANGED <<routingVars, codecVars, keyVars>>

SendResults == {"ok", "disconnect", "other"}

\* ------------------------------------------------------------------------
\* ConnectionManager: envelopes arriving on a city's channel
\* ------------------------------------------------------------------------
NoDeliver ==
    [calls |-> 0, ws |-> NoChannel, current_city |-> NoCity, envelope |-> NoMessage,
     status |-> "none", sent |-> NoMessage, to |-> NoChannel, next_city |-> NoCity,
     shared_key |-> NoKey, active |-> EmptyDict, forwards |-> 0]

\* a key no key exchange of this process derived
ForgedKey == -1

\* an encrypted_data field that is the empty string
EmptyToken == [b64 |-> [fernet |-> NoKey, data |-> <<>>]]

OtherCity(city) == IF city = "B" THEN "C" ELSE "B"

\* what a client may send as an encrypted_message: an envelope it was sent,
\* as it is, or with its code table emptied, its ciphertext replaced by one
\* made with another key, another sender, another recipient, or without
\* ciphertext
Variants(e) ==
    {e,
     [e EXCEPT !.huffman_codes = EmptyDict],
     [e EXCEPT !.encrypted_data = fernet_encrypt(ForgedKey, e.huffman_encoded)],
     [e EXCEPT !.from = OtherCity(e.from)],
     [e EXCEPT !.to = OtherCity(e.to)],
     [e EXCEPT !.encrypted_data = EmptyToken]}

InboundEnvelopes ==
    UNION {Variants(sendLog[i].msg) :
              i \in {j \in 1..Len(sendLog) : sendLog[j].msg.type = "encrypted_message"}}

\* the decrypted_msg dict of decrypt_and_deliver_message
DecryptedMessage(e, aes_decrypted, final_message) ==
    [type |-> "decrypted_message", from |-> e.from, original_message |-> e.original_message,
     huffman_encoded |-> e.huffman_encoded, huffman_codes |-> e.huffman_codes,
     aes_encrypted |-> e.encrypted_data, aes_decrypted |-> aes_decrypted,
     final_message |-> final_message, timestamp |-> e.timestamp]

\* route.index(current_city) if current_city in route else -1 (0-based)
RouteIndex(route, current_city) ==
    IF current_city \in Range(route)
    THEN (CHOOSE i \in 1..Len(route) :
             route[i] = current_city /\ \A j \in 1..(i - 1) : route[j] # current_city) - 1
    ELSE -1

\* current_index >= 0 and current_index < len(route) - 1
Forwards(route, current_index) == current_index >= 0 /\ current_index < Len(route) - 1

\* a next hop that is the first city of the route
NextHop_Source(route, current_index) == route[1]

\* next_city = route[current_index + 1] (0-based)
NextHop(route, current_index) == route[current_index + 2]

\* decrypt_and_deliver_message(encrypted_message, current_city): what the
\* call does, as [status, sent, to, next_city, shared_key]
decrypt_and_deliver_message(e, current_city, active, secrets) ==
    LET nothing == [status |-> "none", sent |-> NoMessage, to |-> NoChannel, next_city |-> NoCity,
                    shared_key |-> NoKey] IN
    IF e.from = "" \/ e.to = "" \/ e.encrypted_data = EmptyToken
    THEN [nothing EXCEPT !.status = "malformed"]
    ELSE IF current_city = e.to
    THEN LET shared_key == get_shared_key(secrets, NameChars[e.from], NameChars[e.to]) IN
         IF shared_key = NoKey
         THEN [nothing EXCEPT !.status = "no_key"]
         ELSE LET aes == fernet_decrypt(shared_key, e.encrypted_data) IN
              IF aes.raised
              THEN [nothing EXCEPT !.status = "auth_failed", !.shared_key = shared_key]
              ELSE LET decoded == decode(aes.data, e.huffman_codes) IN
                   IF e.to \in DOMAIN active
                   THEN [nothing EXCEPT !.status = "decrypted", !.shared_key = shared_key,
                                        !.sent = DecryptedMessage(e, aes.data, decoded.text),
                                        !.to = active[e.to]]
                   ELSE [nothing EXCEPT !.status = "decrypted_unsent", !.shared_key = shared_key]
    ELSE LET current_index == RouteIndex(e.route, current_city) IN
         IF Forwards(e.route, current_index)
         THEN LET next_city == NextHop(e.route, current_index) IN
              IF next_city \in DOMAIN active
              THEN [nothing EXCEPT !.status = "forwarded", !.sent = e,
                                   !.to = active[next_city], !.next_city = next_city]
              ELSE [nothing EXCEPT !.status = "forward_unsent", !.next_city = next_city]
         ELSE [nothing EXCEPT !.status = "not_forwarded"]

\* websocket_endpoint receives {"type": "encrypted_message", ...} on an open
\* channel and awaits decrypt_and_deliver_message(message_data, city); the
\* one send of the call resolves either way and changes nothing
DecryptAndDeliver(ws, e) ==
    /\ Receiving(ws)
    /\ deliver.calls < MaxDelivers
    /\ LET r == decrypt_and_deliver_message(e, channel[ws].city, active_connections, shared_secrets)
       IN /\ deliver' = [calls |-> deliver.calls + 1, ws |-> ws, current_city |-> channel[ws].city,
                         envelope |-> e, status |-> r.status, sent |-> r.sent, to |-> r.to,
                         next_city |-> r.next_city, shared_key |-> r.shared_key,
                         active |-> active_connections,
                         forwards |-> IF r.status = "forwarded" THEN 1 ELSE 0]
          /\ sendLog' = IF r.sent # NoMessage
                        THEN Append(sendLog, Sent(r.to, IF r.status = "forwarded" THEN r.next_city ELSE e.to,
                                                  r.sent, "deliver"))
                        ELSE sendLog
    /\ UNCHANGED <<relay, broadcast>>
    /\ UNCHANGED <<routingVars, codecVars, keyVars, sessionVars>>

\* the client on the channel that was sent the forwarded envelope hands it
\* back as an encrypted_message: the next call of the chain of forwards,
\* forwards counting the forwards of the chain so far
ForwardedBack(ws) ==
    /\ deliver.status = "forwarded"
    /\ ws = deliver.to
    /\ Receiving(ws)
    /\ deliver.calls < MaxDelivers + MaxHandBacks
    /\ LET e == deliver.sent
           r == decrypt_and_deliver_message(e, channel[ws].city, active_connections, shared_secrets)
       IN /\ deliver' = [calls |-> deliver.calls + 1, ws |-> ws, current_city |-> channel[ws].city,
                         envelope |-> e, status |-> r.status, sent |-> r.sent, to |-> r.to,
                         next_city |-> r.next_city, shared_key |-> r.shared_key,
                         active |-> active_connections,
                         forwards |-> deliver.forwards + (IF r.status = "forwarded" THEN 1 ELSE 0)]
          /\ sendLog' = IF r.sent # NoMessage
                        THEN Append(sendLog, Sent(r.to, IF r.status = "forwarded" THEN r.next_city ELSE e.to,
                                                  r.sent, "deliver"))
                        ELSE sendLog
    /\ UNCHANGED <<relay, broadcast>>
    /\ UNCHANGED <<routingVars, codecVars, keyVars, sessionVars>>

\* ------------------------------------------------------------------------
\* ConnectionManager: broadcast of plain messages
\* ------------------------------------------------------------------------
NoBroadcast ==
    [pc |-> "idle", ws |-> NoChannel, received |-> NoMessage, message |-> NoMessage,
     connections |-> EmptyDict, sends |-> <<>>, evicted |-> {},
     before |-> EmptyDict, after |-> EmptyDict]

\* the JSON texts of a {"type": "message", ...} object as clients write them:
\* compact (JSON.stringify) or with the separators of json.dumps
MessageValues == {[type |-> "message", content |-> "hello"]}
RawMessages == [type : {"text"}, style : {"compact", "python"}, value : MessageValues]

\* json.loads(data): the object the text stands for
json_loads(text) == text.value

\* json.dumps(message) without the object: an empty text
json_dumps_Empty(value) == [type |-> "text", style |-> "python", value |-> NoMessage]

\* json.dumps(message): the text of the object with the default separators
json_dumps(value) == [type |-> "text", style |-> "python", value |-> value]

\* websocket_endpoint receives {"type": "message", ...} and awaits
\* broadcast_message(message_data): the registry is copied and gather starts
\* one send_to_one per entry of the copy
EndpointBroadcast(ws, data) ==
    /\ Receiving(ws)
    /\ broadcast.pc = "idle"
    /\ LET message_data == json_loads(data)
           connections == Items(active_connections, 1)
           message_json == json_dumps(message_data)
       IN /\ broadcast' = [broadcast EXCEPT
                              !.pc = IF connections = <<>> THEN "done" ELSE "sending",
                              !.ws = ws, !.received = data, !.message = message_json,
                              !.connections = active_connections,
                              !.sends = [i \in 1..Len(connections) |->
                                            [city |-> connections[i][1], ws |-> connections[i][2],
                                             state |-> "pending", evict |-> NoChannel]]]
          /\ sendLog' = sendLog \o [i \in 1..Len(connections) |->
                                       Sent(connections[i][2], connections[i][1],
                                            message_json, "broadcast")]
    /\ UNCHANGED <<relay, deliver>>
    /\ UNCHANGED <<routingVars, codecVars, keyVars, sessionVars>>

\* one send of the broadcast resolves; send_to_one returns (city, websocket)
\* for a failure whose text names a disconnect
BroadcastSendResolved(i, result) ==
    /\ broadcast.pc = "sending"
    /\ i \in 1..Len(broadcast.sends)
    /\ broadcast.sends[i].state = "pending"
    /\ broadcast' = [broadcast EXCEPT !.sends[i].state = result,
                                      !.sends[i].evict = IF result = "disconnect"
                                                         THEN broadcast.sends[i].ws
                                                         ELSE NoChannel]
    /\ UNCHANGED <<sendLog, relay, deliver>>
    /\ UNCHANGED <<routingVars, codecVars, keyVars, sessionVars>>

\* gather has returned: disconnect(city, websocket) for every returned pair
BroadcastGathered ==
    /\ broadcast.pc = "sending"
    /\ GatherDone(broadcast.sends)
    /\ LET disconnected_cities == FailedCities(broadcast.sends, 1)
           st == DisconnectAll([reg |-> Registry, calls |-> disconnectCalls,
                                last |-> lastDisconnect], disconnected_cities, 1)
       IN /\ active_connections' = st.reg.active
          /\ city_connections' = st.reg.conns
          /\ keepalive_tasks' = st.reg.keepalive
          /\ disconnectCalls' = st.calls
          /\ lastDisconnect' = st.last
          /\ broadcast' = [broadcast EXCEPT !.pc = "done",
                                            !.evicted = Range(disconnected_cities),
                                            !.before = active_connections,
                                            !.after = st.reg.active]
    /\ UNCHANGED <<channel, registrations, sendLog, relay, deliver>>
    /\ UNCHANGED <<routingVars, codecVars, keyVars>>

\* ------------------------------------------------------------------------
\* websocket_endpoint: the message loop
\* ------------------------------------------------------------------------
\* An inbound text, by what decides its handling: whether it is JSON and of
\* what kind ("invalid", "array" for any JSON value that is not an object,
\* "object"), the value of "type" ("missing" when absent, "other" for an
\* unknown one), the value of "to" ("" when absent), the kind of "message"
\* ("missing", "empty", "text", "int" for a number other than 0, "dict" for
\* a non-empty object, "nested_list" for a list that holds a list) and the
\* value of "timestamp" ("None" when absent)
Timestamps == {"None", "t1"}
Payload(json, type, to, message, timestamp) ==
    [json |-> json, type |-> type, to |-> to, message |-> message, timestamp |-> timestamp]

InboundPayloads ==
    {Payload("invalid", "none", "", "missing", "None"),
     Payload("array", "none", "", "missing", "None"),
     Payload("object", "missing", "", "missing", "None"),
     Payload("object", "other", "B", "text", "None")}
    \cup {Payload("object", "ping", "", "missing", timestamp) : timestamp \in Timestamps}
    \cup {Payload("object", "ping", "B", "int", "t1")}
    \cup {Payload("object", "send_encrypted", "B", message, "None") :
             message \in {"int", "dict", "nested_list"}}
    \cup {Payload("object", "send_encrypted", "", "dict", "None")}

\* the message loop with the ping test after the other tests of the type
Dispatch_PingLast(p) ==
    IF p.json = "invalid" THEN "skip"
    ELSE IF p.json # "object" THEN "raise"
    ELSE IF p.type = "message" THEN "broadcast"
    ELSE IF p.type = "encrypted_message" THEN "deliver"
    ELSE IF p.to # "" /\ p.message \notin {"missing", "empty", "int"} THEN "relay"
    ELSE IF p.message = "int" THEN "raise"
    ELSE IF p.type = "ping" THEN "pong"
    ELSE "skip"

\* what one turn of the message loop does with a payload:
\*   "skip"       json.loads raises JSONDecodeError, or no branch applies, or
\*                a send_encrypted has no recipient or no message: continue
\*   "raise"      message_data.get raises (not an object), or len(message)
\*                raises (a number): the handler raises WebSocketDisconnect
\*   "pong", "broadcast", "deliver", "relay": the four branches
Dispatch(p) ==
    IF p.json = "invalid" THEN "skip"
    ELSE IF p.json # "object" THEN "raise"
    ELSE IF p.type = "ping" THEN "pong"
    ELSE IF p.type = "message" THEN "broadcast"
    ELSE IF p.type = "encrypted_message" THEN "deliver"
    ELSE IF p.type = "send_encrypted"
    THEN IF p.message = "int" THEN "raise"
         ELSE IF p.to = "" THEN "skip"
         ELSE IF p.message \in {"missing", "empty"} THEN "skip"
         ELSE "relay"
    ELSE "skip"

\* {"type": "pong", "timestamp": message_data.get("timestamp")}
Pong(p) == [type |-> "pong", timestamp |-> p.timestamp]

\* the number of payloads the message loops of the channels from ws on have
\* taken up
RECURSIVE Turns(_)
Turns(ws) == IF ws > MaxChannels THEN 0 ELSE channel[ws].turns + Turns(ws + 1)

\* a ping arrives: the pong is sent on the channel it arrived on and the
\* loop awaits that send for at most a second
EndpointPing(ws, p) ==
    /\ Receiving(ws)
    /\ Dispatch(p) = "pong"
    /\ Turns(1) < MaxTurns
    /\ sendLog' = Append(sendLog, Sent(ws, channel[ws].city, Pong(p), "endpoint"))
    /\ channel' = [channel EXCEPT ![ws].pc = "pong", ![ws].inbound = p, ![ws].turns = @ + 1]
    /\ UNCHANGED <<active_connections, city_connections, keepalive_tasks,
                   registrations, disconnectCalls, lastDisconnect>>
    /\ UNCHANGED <<relay, deliver, broadcast>>
    /\ UNCHANGED <<routingVars, codecVars, keyVars>>

\* the send of the pong returns, raises or times out: the loop continues
EndpointPongResolved(ws) ==
    /\ channel[ws].pc = "pong"
    /\ channel' = [channel EXCEPT ![ws].pc = "open"]
    /\ UNCHANGED <<active_connections, city_connections, keepalive_tasks,
                   registrations, disconnectCalls, lastDisconnect>>
    /\ UNCHANGED notSessionVars

\* a payload no branch takes up: the loop continues
EndpointSkip(ws, p) ==
    /\ Receiving(ws)
    /\ Dispatch(p) = "skip"
    /\ Turns(1) < MaxTurns
    /\ channel' = [channel EXCEPT ![ws].inbound = p, ![ws].turns = @ + 1]
    /\ UNCHANGED <<active_connections, city_connections, keepalive_tasks,
                   registrations, disconnectCalls, lastDisconnect>>
    /\ UNCHANGED notSessionVars

\* a payload whose handling raises: the handler for Exception raises
\* WebSocketDisconnect, the endpoint calls disconnect(city, websocket) and ends
EndpointRaise(ws, p) ==
    /\ Receiving(ws)
    /\ Dispatch(p) = "raise"
    /\ Turns(1) < MaxTurns
    /\ LET city == channel[ws].city
           reg == disconnect(Registry, city, ws)
       IN /\ active_connections' = reg.active
          /\ city_connections' = reg.conns
          /\ keepalive_tasks' = reg.keepalive
          /\ lastDisconnect' = DisconnectRecord(city, ws, reg)
    /\ disconnectCalls' = disconnectCalls \cup {ws}
    /\ channel' = [channel EXCEPT ![ws].pc = "gone", ![ws].inbound = p, ![ws].turns = @ + 1]
    /\ UNCHANGED registrations
    /\ UNCHANGED notSessionVars

\* a send_encrypted with a recipient whose message is not a text but passes
\* the tests of the loop: the send_encrypted_message task is created
EndpointSendEncryptedOther(ws, p) ==
    /\ Receiving(ws)
    /\ Dispatch(p) = "relay"
    /\ p.message \in {"dict", "nested_list"}
    /\ relay.pc = "idle"
    /\ Turns(1) < MaxTurns
    /\ relay' = [relay EXCEPT !.pc = "created", !.ws = ws, !.from_city = channel[ws].city,
                              !.to_city = p.to, !.message_type = p.message]
    /\ channel' = [channel EXCEPT ![ws].inbound = p, ![ws].turns = @ + 1]
    /\ UNCHANGED <<active_connections, city_connections, keepalive_tasks,
                   registrations, disconnectCalls, lastDisconnect>>
    /\ UNCHANGED <<sendLog, deliver, broadcast>>
    /\ UNCHANGED <<routingVars, codecVars, keyVars>>

\* ------------------------------------------------------------------------
\* ConnectionManager: the keepalive loop of a channel
\* ------------------------------------------------------------------------
\* A task is in keepalive_tasks from its creation until _stop_keepalive pops
\* and cancels it or the finally of its loop pops it; a cancelled task does
\* not run on, so the loop of a channel steps only while the channel is in
\* keepalive_tasks.
Heartbeat == [type |-> "ping", source |-> "server_keepalive", timestamp |-> "time.time"]

\* the test of the loop on the city alone
StillRegistered_AnyChannel(active, city, websocket) == city \in DOMAIN active

\* the loop goes on: not (city not in self.active_connections or
\* self.active_connections.get(city) != websocket)
StillRegistered(active, city, websocket) ==
    city \in DOMAIN active /\ active[city] = websocket

\* a loop that disconnects its channel when it ends
KeepaliveEnded_Evicts(reg, city, websocket) == disconnect(reg, city, websocket)

\* the registry after the loop left by a break: finally pops its key
KeepaliveEnded(reg, city, websocket) ==
    [active |-> reg.active, conns |-> reg.conns, keepalive |-> reg.keepalive \ {websocket}]

\* the number of heartbeats the loops of the channels from ws on have sent
RECURSIVE Probes(_)
Probes(ws) == IF ws > MaxChannels THEN 0 ELSE channel[ws].probes + Probes(ws + 1)

\* asyncio.sleep returns: the loop ends when its channel is not the one
\* registered for its city, otherwise it sends a heartbeat on its channel
KeepaliveTick(ws) ==
    /\ ws \in keepalive_tasks
    /\ channel[ws].keepalive = "sleeping"
    /\ LET city == channel[ws].city
           reg == KeepaliveEnded(Registry, city, ws)
       IN IF StillRegistered(active_connections, city, ws)
          THEN /\ Probes(1) < MaxProbes
               /\ sendLog' = Append(sendLog, Sent(ws, city, Heartbeat, "keepalive"))
               /\ channel' = [channel EXCEPT ![ws].keepalive = "sending",
                                             ![ws].probes = @ + 1]
               /\ UNCHANGED <<active_connections, city_connections, keepalive_tasks>>
          ELSE /\ active_connections' = reg.active
               /\ city_connections' = reg.conns
               /\ keepalive_tasks' = reg.keepalive
               /\ channel' = [channel EXCEPT ![ws].keepalive = "ended"]
               /\ UNCHANGED sendLog
    /\ UNCHANGED <<registrations, disconnectCalls, lastDisconnect>>
    /\ UNCHANGED <<relay, deliver, broadcast>>
    /\ UNCHANGED <<routingVars, codecVars, keyVars>>

\* the send of the heartbeat returns, and the loop sleeps again, or raises,
\* and the loop ends
KeepaliveSendResolved(ws, sent) ==
    /\ ws \in keepalive_tasks
    /\ channel[ws].keepalive = "sending"
    /\ LET city == channel[ws].city
           reg == KeepaliveEnded(Registry, city, ws)
       IN IF sent
          THEN /\ channel' = [channel EXCEPT ![ws].keepalive = "sleeping"]
               /\ UNCHANGED <<active_connections, city_connections, keepalive_tasks>>
          ELSE /\ active_connections' = reg.active
               /\ city_connections' = reg.conns
               /\ keepalive_tasks' = reg.keepalive
               /\ channel' = [channel EXCEPT ![ws].keepalive = "ended"]
    /\ UNCHANGED <<registrations, disconnectCalls, lastDisconnect>>
    /\ UNCHANGED notSessionVars

MessageInit ==
    /\ sendLog = <<>>
    /\ relay = IdleRelay
    /\ deliver = NoDeliver
    /\ broadcast = NoBroadcast

\* ------------------------------------------------------------------------
\* RoutingManager: state and operations
\* ------------------------------------------------------------------------
RoutingInit ==
    /\ cities = <<>>
    /\ edges = <<>>
    /\ mst_edges = <<>>
    /\ adjacency_list = EmptyDict
    /\ city_to_index = EmptyDict
    /\ index_to_city = EmptyDict
    /\ mst_adjacency = EmptyDict
    /\ loadStatus = "none"
    /\ routeQuery = NoQuery

\* load_topology(cities, edges) for the pending request
LoadTopology ==
    /\ topoRequest # NoRequest
    /\ LET cs == topoRequest.cities
           es == topoRequest.edges
           built == BuildAdjacency(EmptyAdjacency(Len(cs)), es, 1)
       IN /\ cities' = cs
          /\ edges' = es
          /\ city_to_index' = CityToIndex(cs)
          /\ index_to_city' = IndexToCity(cs)
          /\ adjacency_list' = built.adj
          /\ IF built.raised
             THEN /\ loadStatus' = "raised"
                  /\ UNCHANGED <<mst_edges, mst_adjacency>>
             ELSE LET m == compute_mst(cs, es)
                  IN /\ loadStatus' = "ok"
                     /\ mst_edges' = m.mst_edges
                     /\ mst_adjacency' = m.mst_adjacency
    /\ topoRequest' = NoRequest
    /\ routeQuery' = NoQuery
    /\ UNCHANGED notRoutingVars

\* a find_route(source, target) call; it changes nothing in the manager
FindRoute ==
    \E s \in QueryNames, t \in QueryNames :
        /\ routeQuery' = [kind |-> "Query", source |-> s, target |-> t,
                          result |-> find_route(s, t)]
        /\ UNCHANGED <<cities, edges, mst_edges, adjacency_list, city_to_index,
                       index_to_city, mst_adjacency, topoRequest, loadStatus>>
        /\ UNCHANGED notRoutingVars

SpecRoutingInit ==
    /\ RoutingInit
    /\ CodecIdle
    /\ KeyInit
    /\ SessionInit
    /\ MessageInit
    /\ topoRequest \in [kind : {"Request"}, cities : CityLists,
                        edges : SeqsUpTo(EdgeChoices, MaxEdges)]

SpecRoutingNext == LoadTopology \/ FindRoute

SpecRouting == SpecRoutingInit /\ [][SpecRoutingNext]_vars

\* repeated loads: the topologies a POST /topology may carry, one after the
\* other, the last edge choice out of range for every city list
ReloadEdges == {Edge(0, 1, 1), Edge(1, 2, 2), Edge(2, 3, 1)}
ReloadRequests == [kind : {"Request"}, cities : CityLists,
                   edges : SeqsUpTo(ReloadEdges, 2)]

\* a POST /topology arrives with its cities and edges
TopologyRequest ==
    /\ topoRequest = NoRequest
    /\ topoRequest' \in ReloadRequests
    /\ UNCHANGED <<cities, edges, mst_edges, adjacency_list, city_to_index,
                   index_to_city, mst_adjacency, loadStatus, routeQuery>>
    /\ UNCHANGED notRoutingVars

SpecReloadInit ==
    /\ RoutingInit
    /\ CodecIdle
    /\ KeyInit
    /\ SessionInit
    /\ MessageInit
    /\ topoRequest = NoRequest

SpecReloadNext == TopologyRequest \/ LoadTopology

SpecReload == SpecReloadInit /\ [][SpecReloadNext]_vars

SpecCodecInit ==
    /\ RoutingInit
    /\ topoRequest = NoRequest
    /\ KeyInit
    /\ SessionInit
    /\ MessageInit
    /\ codecCall = NoCall
    /\ codecRequest \in CodecRequests

SpecCodecNext == Encode \/ DecodeEncoded \/ Decode \/ DecryptMessage

SpecCodec == SpecCodecInit /\ [][SpecCodecNext]_vars

SpecKeysInit ==
    /\ RoutingInit
    /\ topoRequest = NoRequest
    /\ CodecIdle
    /\ KeyInit
    /\ SessionInit
    /\ MessageInit

SpecKeysNext ==
    \/ \E t \in KeyTasks, c1 \in KeyCities, c2 \in KeyCities : EstablishStart(t, c1, c2)
    \/ \E t \in KeyTasks : KeyExchange(t)

\* establish_shared_key calls that may overlap (one per send_encrypted task)
SpecKeys == SpecKeysInit /\ [][SpecKeysNext]_vars

SpecKeysAwaitedNext ==
    \/ \E t \in KeyTasks, c1 \in KeyCities, c2 \in KeyCities : EstablishStartAwaited(t, c1, c2)
    \/ \E t \in KeyTasks : KeyExchange(t)

\* establish_shared_key calls made one after the other
SpecKeysAwaited == SpecKeysInit /\ [][SpecKeysAwaitedNext]_vars

\* city names with a '-' in them: a name is whatever the client puts in the
\* path of its WebSocket URL
DashCities == {<<"A">>, <<"C">>, <<"A", "-", "B">>, <<"B", "-", "C">>}

SpecKeyNamesNext ==
    \/ \E t \in KeyTasks, c1 \in DashCities, c2 \in DashCities : EstablishStartAwaited(t, c1, c2)
    \/ \E t \in KeyTasks : KeyExchange(t)

\* establish_shared_key calls made one after the other for such names
SpecKeyNames == SpecKeysInit /\ [][SpecKeyNamesNext]_vars

SpecSessionsInit ==
    /\ RoutingInit
    /\ topoRequest = NoRequest
    /\ CodecIdle
    /\ KeyInit
    /\ SessionInit
    /\ MessageInit

SpecSessionsNext ==
    \/ \E ws \in Channels, city \in SessionCities : ConnectRequest(ws, city)
    \/ \E ws \in Channels : ConnectAccepted(ws)
    \/ \E ws \in Channels : ConnectAcceptFailed(ws)
    \/ \E ws \in Channels : ConnectClosedOld(ws)
    \/ \E ws \in Channels : EndpointDisconnect(ws)

\* the websocket endpoints of the channels, interleaved at their awaits
SpecSessions == SpecSessionsInit /\ [][SpecSessionsNext]_vars

\* the cities the channels of the relay scenarios connect for: the first
\* channel for the requester A, the others for B or the monitoring sink
RelayCities(ws) == IF ws = 1 THEN {"A"} ELSE {"B", MonitorAdmin}

SpecRelayInit ==
    /\ RoutingInit
    /\ topoRequest \in RelayTopologies
    /\ CodecIdle
    /\ KeyInit
    /\ SessionInit
    /\ MessageInit

SpecRelayNext ==
    \/ LoadTopology
    \/ \E ws \in Channels : \E city \in RelayCities(ws) : ConnectRequest(ws, city)
    \/ \E ws \in Channels : ConnectAccepted(ws)
    \/ \E ws \in Channels : ConnectClosedOld(ws)
    \/ \E ws \in Channels : EndpointDisconnect(ws)
    \/ \E ws \in Channels, to_city \in RelayTargets, message \in RelayTexts :
          EndpointSendEncrypted(ws, to_city, message)
    \/ \E ws \in Channels, p \in InboundPayloads : EndpointSendEncryptedOther(ws, p)
    \/ RelayStart
    \/ RelayKeyExchanged
    \/ \E ids \in NodeIds : RelayEncrypted(ids)
    \/ \E i \in 1..MaxCities, result \in SendResults : RelaySendResolved(i, result)
    \/ RelayGathered
    \/ \E result \in SendResults : RelayMonitorResolved(result)

\* one send_encrypted request and its task, among connects and disconnects
SpecRelay == SpecRelayInit /\ [][SpecRelayNext]_vars

SpecBroadcastInit ==
    /\ RoutingInit
    /\ topoRequest = NoRequest
    /\ CodecIdle
    /\ KeyInit
    /\ SessionInit
    /\ MessageInit

SpecBroadcastNext ==
    \/ \E ws \in Channels, city \in {"A", "B"} : ConnectRequest(ws, city)
    \/ \E ws \in Channels : ConnectAccepted(ws)
    \/ \E ws \in Channels : ConnectClosedOld(ws)
    \/ \E ws \in Channels : EndpointDisconnect(ws)
    \/ \E ws \in Channels, data \in RawMessages : EndpointBroadcast(ws, data)
    \/ \E i \in 1..Cardinality(SessionCities), result \in SendResults :
          BroadcastSendResolved(i, result)
    \/ BroadcastGathered

\* one broadcast of a "message" payload among connects and disconnects
SpecBroadcast == SpecBroadcastInit /\ [][SpecBroadcastNext]_vars

\* the cities the channels of the message-loop scenarios connect for
EndpointCities(ws) == IF ws = 1 THEN {"A"} ELSE IF ws = 2 THEN {"B"} ELSE {"A", "B"}

SpecEndpointInit ==
    /\ RoutingInit
    /\ topoRequest = NoRequest
    /\ CodecIdle
    /\ KeyInit
    /\ SessionInit
    /\ MessageInit

SpecEndpointNext ==
    \/ \E ws \in Channels : \E city \in EndpointCities(ws) : ConnectRequest(ws, city)
    \/ \E ws \in Channels : ConnectAccepted(ws)
    \/ \E ws \in Channels : ConnectClosedOld(ws)
    \/ \E ws \in Channels : EndpointDisconnect(ws)
    \/ \E ws \in Channels, p \in InboundPayloads : EndpointPing(ws, p)
    \/ \E ws \in Channels : EndpointPongResolved(ws)
    \/ \E ws \in Channels, p \in InboundPayloads : EndpointSkip(ws, p)
    \/ \E ws \in Channels, p \in InboundPayloads : EndpointRaise(ws, p)
    \/ \E ws \in Channels, p \in InboundPayloads : EndpointSendEncryptedOther(ws, p)
    \/ RelayStart

\* the message loops of the channels taking up pings and payloads that are
\* not of a known kind, among connects and disconnects
SpecEndpoint == SpecEndpointInit /\ [][SpecEndpointNext]_vars

\* the cities the channels of the keepalive scenarios connect for
KeepaliveCities(ws) == IF ws = 2 THEN {"A", "B"} ELSE {"A"}

\* the payload and the send results of the broadcast of the keepalive scenarios
KeepaliveMessage == [type |-> "text", style |-> "compact",
                     value |-> [type |-> "message", content |-> "hello"]]
KeepaliveSendResults == {"ok", "disconnect"}

SpecKeepaliveInit ==
    /\ RoutingInit
    /\ topoRequest = NoRequest
    /\ CodecIdle
    /\ KeyInit
    /\ SessionInit
    /\ MessageInit

SpecKeepaliveNext ==
    \/ \E ws \in Channels : \E city \in KeepaliveCities(ws) : ConnectRequest(ws, city)
    \/ \E ws \in Channels : ConnectAccepted(ws)
    \/ \E ws \in Channels : ConnectClosedOld(ws)
    \/ \E ws \in Channels : EndpointDisconnect(ws)
    \/ \E ws \in Channels : KeepaliveTick(ws)
    \/ \E ws \in Channels, sent \in BOOLEAN : KeepaliveSendResolved(ws, sent)
    \/ \E ws \in Channels : EndpointBroadcast(ws, KeepaliveMessage)
    \/ \E i \in 1..Cardinality(SessionCities), result \in KeepaliveSendResults :
          BroadcastSendResolved(i, result)
    \/ BroadcastGathered

\* the keepalive loops of the channels among connects, disconnects and the
\* evictions of one broadcast
SpecKeepalive == SpecKeepaliveInit /\ [][SpecKeepaliveNext]_vars

\* the city each channel of the delivery scenarios connects for, and the
\* topology they run on: the chain A - B - C
DeliverCity(ws) == AllCityNames[ws]
DeliverTopology ==
    [kind |-> "Request", cities |-> <<"A", "B", "C">>, edges |-> <<Edge(0, 1, 1), Edge(1, 2, 2)>>]
DeliverTexts == {<<"a">>, <<"a", "b">>}

SpecDeliverInit ==
    /\ RoutingInit
    /\ topoRequest = DeliverTopology
    /\ CodecIdle
    /\ KeyInit
    /\ SessionInit
    /\ MessageInit

SpecDeliverNext ==
    \/ LoadTopology
    \/ \E ws \in Channels : ConnectRequest(ws, DeliverCity(ws))
    \/ \E ws \in Channels : ConnectAccepted(ws)
    \/ EstablishStart(1, <<"C">>, <<"A">>)
    \/ KeyExchange(1)
    \/ \E ws \in Channels, message \in DeliverTexts : EndpointSendEncrypted(ws, "C", message)
    \/ RelayStart
    \/ RelayKeyExchanged
    \/ \E ids \in NodeIds : RelayEncrypted(ids)
    \/ \E i \in 1..MaxCities : RelaySendResolved(i, "ok")
    \/ RelayGathered
    \/ \E ws \in Channels : \E e \in InboundEnvelopes : DecryptAndDeliver(ws, e)
    \/ \E ws \in Channels : ForwardedBack(ws)

\* one envelope relayed to C and the encrypted_message payloads the clients
\* send back, with another establish_shared_key call for C and A under way
SpecDeliver == SpecDeliverInit /\ [][SpecDeliverNext]_vars

\* two requests of A for B on one channel, over the chain A - B - C
FirstText == <<"a">>
SecondText == <<"b">>
TwoRequestIds == {[i \in 1..NumNodes |-> i]}

SpecTwoRequestsInit ==
    /\ RoutingInit
    /\ topoRequest = DeliverTopology
    /\ CodecIdle
    /\ KeyInit
    /\ SessionInit
    /\ MessageInit

SpecTwoRequestsNext ==
    \/ LoadTopology
    \/ \E ws \in Channels : ConnectRequest(ws, DeliverCity(ws))
    \/ \E ws \in Channels : ConnectAccepted(ws)
    \/ EndpointSendEncrypted(1, "B", FirstText)
    \/ EndpointSendEncryptedSecond(1, SecondText)
    \/ EventLoopSwitch
    \/ RelayStart
    \/ RelayKeyExchanged
    \/ \E ids \in TwoRequestIds : RelayEncrypted(ids)
    \/ \E i \in 1..MaxCities : RelaySendResolved(i, "ok")
    \/ RelayGathered

\* two send_encrypted requests on one channel and their two tasks
SpecTwoRequests == SpecTwoRequestsInit /\ [][SpecTwoRequestsNext]_vars

\* ------------------------------------------------------------------------
\* Properties of the codec
\* ------------------------------------------------------------------------
\* the bits that remain unmatched at the end when bits is read greedily
\* against table (all of bits when the table is empty)
RECURSIVE UnmatchedTail(_, _, _)
UnmatchedTail(bits, table, acc) ==
    IF bits = <<>> THEN acc
    ELSE IF \E c \in DOMAIN table : table[c] = Append(acc, Head(bits))
    THEN UnmatchedTail(Tail(bits), table, <<>>)
    ELSE UnmatchedTail(Tail(bits), table, Append(acc, Head(bits)))

\* C5: decode(encode(text)) = text for every text over the alphabet, the
\* empty text, one-symbol texts and texts repeating one symbol included;
\* encode("aaa") is ("000", {a: "0"}) and encode("") is ("", {}).
C5_RoundTrip ==
    /\ codecCall.op = "roundtrip" =>
          /\ ~codecCall.result.raised
          /\ codecCall.result.text = codecCall.text
    /\ (codecCall.op \in {"encode", "roundtrip"} /\ codecCall.text = <<"a", "a", "a">>) =>
          /\ codecCall.bits = <<"0", "0", "0">>
          /\ codecCall.table = [c \in {"a"} |-> <<"0">>]
    /\ (codecCall.op \in {"encode", "roundtrip"} /\ codecCall.text = <<>>) =>
          /\ codecCall.bits = <<>>
          /\ codecCall.table = EmptyDict

\* C5 witness: a text with three distinct symbols, one of them repeated, has
\* been encoded and decoded back.
C5_Witness ==
    /\ codecCall.op = "roundtrip"
    /\ Len(codecCall.text) = 4
    /\ Range(codecCall.text) = Alphabet
    /\ Len(codecCall.bits) > Len(codecCall.text)
    /\ codecCall.result.text = codecCall.text

\* C6: decode reports an error whenever the bitstring ends with leftover bits
\* that match no table entry (a non-empty bitstring with an empty table
\* included), and decrypt of an authentic token does the same instead of
\* returning the text decoded so far.
C6_LeftoverBitsAreAnError ==
    (/\ codecCall.op \in {"decode", "decrypt"}
     /\ UnmatchedTail(codecCall.bits, codecCall.table, <<>>) # <<>>)
    => codecCall.result.raised

\* p is a prefix of s (str.startswith)
IsPrefix(p, s) == Len(p) <= Len(s) /\ SubSeq(s, 1, Len(p)) = p

\* C11: the code table encode returns for a non-empty text has exactly the
\* distinct symbols of the text as keys, gives each a non-empty code, and is
\* prefix-free: no symbol's code is a prefix of another symbol's code.
C11_PrefixFreeTable ==
    (codecCall.op \in {"encode", "roundtrip"} /\ codecCall.text # <<>>) =>
        /\ DOMAIN codecCall.table = Range(codecCall.text)
        /\ \A c \in DOMAIN codecCall.table : codecCall.table[c] # <<>>
        /\ \A c, d \in DOMAIN codecCall.table :
              c # d => ~IsPrefix(codecCall.table[c], codecCall.table[d])

\* C11 witness: a table for three symbols with codes of different lengths
\* has been returned.
C11_Witness ==
    /\ codecCall.op = "encode"
    /\ DOMAIN codecCall.table = Alphabet
    /\ \E c, d \in Alphabet : Len(codecCall.table[c]) < Len(codecCall.table[d])

\* C34: an encode call returns the code table and the bitstring that every
\* encode call on the same text returns, whatever addresses the nodes of the
\* tree are given: entries of equal frequency are ordered by their insertion
\* sequence alone.
C34_EncodeDeterministic ==
    codecCall.op = "encode" =>
        \A ids \in NodeIds :
            encode(codecCall.text, ids) = [bits |-> codecCall.bits, table |-> codecCall.table]

\* ------------------------------------------------------------------------
\* Properties of the shared keys
\* ------------------------------------------------------------------------
SamePair(t, u) ==
    {keyTask[t].city1, keyTask[t].city2} = {keyTask[u].city1, keyTask[u].city2}

\* C3: a shared key is created once per unordered pair: all establish calls
\* for the pair, overlapping ones included, return the same key, and the key
\* a call returned (the key its envelope is encrypted with) is the key
\* get_shared_key gives for the pair afterwards.
C3_KeyCreatedOncePerPair ==
    /\ \A t, u \in KeyTasks :
          (keyTask[t].pc = "done" /\ keyTask[u].pc = "done" /\ SamePair(t, u))
          => keyTask[t].result = keyTask[u].result
    /\ \A t \in KeyTasks :
          keyTask[t].pc = "done"
          => get_shared_key(shared_secrets, keyTask[t].city1, keyTask[t].city2) = keyTask[t].result

\* C4: with the calls made one after the other, establish(A,B) and
\* establish(B,A) return the same key, get_shared_key gives that key for
\* both orders, and a later call re-derives nothing: every pair is derived
\* at most once.
C4_SymmetricCachedKey ==
    /\ \A t, u \in KeyTasks :
          (keyTask[t].pc = "done" /\ keyTask[u].pc = "done" /\ SamePair(t, u))
          => keyTask[t].result = keyTask[u].result
    /\ \A t \in KeyTasks :
          keyTask[t].pc = "done"
          => /\ keyTask[t].result # NoKey
             /\ get_shared_key(shared_secrets, keyTask[t].city1, keyTask[t].city2) = keyTask[t].result
             /\ get_shared_key(shared_secrets, keyTask[t].city2, keyTask[t].city1) = keyTask[t].result
    /\ \A i, j \in 1..Len(keysDerived) : i # j => keysDerived[i] # keysDerived[j]
    /\ Cardinality(DOMAIN shared_secrets) = Len(keysDerived)

\* C4 witness: establish(A,B), establish(B,A) and a third call for the pair
\* have returned one key, derived once.
C4_Witness ==
    /\ \A t \in KeyTasks : keyTask[t].pc = "done"
    /\ keyTask[1].city1 = <<"A">> /\ keyTask[1].city2 = <<"B">>
    /\ keyTask[2].city1 = <<"B">> /\ keyTask[2].city2 = <<"A">>
    /\ \A t \in KeyTasks : SamePair(t, 1) /\ keyTask[t].result = keyTask[1].result
    /\ Len(keysDerived) = 1

\* C37: two establish_shared_key calls for different unordered pairs of
\* cities use different cache keys and so never return the same cached key,
\* also when a city name contains '-'.
C37_PairsNeverShareEntry ==
    \A t, u \in KeyTasks :
        (keyTask[t].pc = "done" /\ keyTask[u].pc = "done" /\ ~SamePair(t, u))
        => /\ KeyPair(keyTask[t].city1, keyTask[t].city2) # KeyPair(keyTask[u].city1, keyTask[u].city2)
           /\ keyTask[t].result # keyTask[u].result

\* ------------------------------------------------------------------------
\* Properties of the session registry
\* ------------------------------------------------------------------------
\* the channels that took part in a connect for the city
TookPart(city) == {ws \in Channels : channel[ws].city = city}

\* every connect for the city has returned and no channel of it has left
ConnectsReturned(city) ==
    /\ TookPart(city) # {}
    /\ \A ws \in TookPart(city) : channel[ws].pc = "open"

\* C1: after any interleaving of concurrent connect calls for one city, once
\* they have all returned, exactly one of the channels is registered in
\* active_connections and every other channel that took part has been sent
\* a close signal.
C1_OneSessionLosersClosed ==
    \A city \in SessionCities :
        ConnectsReturned(city)
        => /\ RegisteredIn(active_connections, city) \in TookPart(city)
           /\ \A ws \in TookPart(city) :
                 ws # active_connections[city] => channel[ws].closeCalls >= 1

LastRegistered(city) == registrations[city][Len(registrations[city])]

\* C2: disconnect(city, channel) removes the city's entry from
\* active_connections only when the channel passed in is the registered one
\* (and then it does remove it); the channel registered last for a city stays
\* registered until disconnect is called for that very channel, whatever
\* disconnects arrive for channels it superseded.
C2_DisconnectOnlyRegistered ==
    /\ lastDisconnect # NoDisconnect =>
          lastDisconnect.after = IF lastDisconnect.before = lastDisconnect.channel
                                 THEN NoChannel ELSE lastDisconnect.before
    /\ \A city \in SessionCities :
          (registrations[city] # <<>> /\ LastRegistered(city) \notin disconnectCalls)
          => RegisteredIn(active_connections, city) = LastRegistered(city)

\* C2 witness: a channel superseded by a newer connect has left afterwards;
\* its disconnect found the newer channel registered and left it there.
C2_Witness ==
    /\ lastDisconnect # NoDisconnect
    /\ lastDisconnect.before \notin {NoChannel, lastDisconnect.channel}
    /\ lastDisconnect.after = lastDisconnect.before
    /\ channel[lastDisconnect.channel].pc = "gone"
    /\ channel[lastDisconnect.channel].closeCalls >= 1
    /\ RegisteredIn(active_connections, lastDisconnect.city) = lastDisconnect.before

\* C25: a disconnect(city, channel) call changes nothing when it repeats a
\* call already made, and nothing when the city has no registered session:
\* active_connections, city_connections and keepalive_tasks are as before.
\* The calls are those the program can make, of a channel with its own city.
C25_DisconnectIdempotent ==
    \A ws \in Channels :
        channel[ws].pc # "new" =>
            LET city == channel[ws].city
                once == disconnect(Registry, city, ws)
            IN /\ disconnect(once, city, ws) = once
               /\ ws \in disconnectCalls => once = Registry
               /\ city \notin DOMAIN active_connections => once = Registry

\* this step is the end of the endpoint of the channel on a failed receive
ReceiveFailed(ws) == channel[ws].pc = "open" /\ channel'[ws].pc = "gone"

\* C29: the step in which the receive of a channel fails ends that channel's
\* endpoint and calls disconnect(city, channel): from then on the channel is
\* registered for no city; the step ends no other endpoint and changes the
\* registration of no city that another channel holds.
C29_ReceiveFailureEndsOwnSession ==
    /\ [][\A ws \in Channels :
            ReceiveFailed(ws) =>
                /\ ws \in disconnectCalls'
                /\ lastDisconnect'.channel = ws
                /\ lastDisconnect'.city = channel[ws].city
                /\ \A other \in Channels \ {ws} : channel'[other] = channel[other]
                /\ \A c \in SessionCities :
                      RegisteredIn(active_connections, c) # ws =>
                          RegisteredIn(active_connections', c)
                             = RegisteredIn(active_connections, c)]_vars
    /\ [](\A ws \in Channels :
            channel[ws].pc = "gone" =>
                \A c \in SessionCities : RegisteredIn(active_connections, c) # ws)

\* C29 witness: the receive of a registered channel has failed and its city
\* has no session, while the channel of another city is registered and its
\* endpoint runs.
C29_Witness ==
    \E ws \in Channels, other \in Channels :
        /\ channel[ws].pc = "gone"
        /\ lastDisconnect = [city |-> channel[ws].city, channel |-> ws,
                             before |-> ws, after |-> NoChannel]
        /\ channel[other].pc = "open"
        /\ channel[other].city # channel[ws].city
        /\ RegisteredIn(active_connections, channel[other].city) = other

\* C39: the two session maps agree in every state: they have the same
\* cities as keys, and the list of a city in city_connections holds exactly
\* one channel, the one registered for the city in active_connections.
C39_SessionMapsAgree ==
    /\ DOMAIN city_connections = DOMAIN active_connections
    /\ \A city \in DOMAIN city_connections :
           /\ city_connections[city] # <<>>
           /\ city_connections[city] = <<active_connections[city]>>

\* ------------------------------------------------------------------------
\* Properties of the routing engine
\* ------------------------------------------------------------------------
\* the cities reachable from the set S over the edges es (either direction)
RECURSIVE ReachableFrom(_, _)
ReachableFrom(S, es) ==
    LET step == S \cup {es[k].v : k \in {j \in 1..Len(es) : es[j].u \in S}}
                  \cup {es[k].u : k \in {j \in 1..Len(es) : es[j].v \in S}}
    IN IF step = S THEN S ELSE ReachableFrom(step, es)

\* the connected components of the graph (0..n-1, es), isolated cities included
Components(n, es) == {ReachableFrom({i}, es) : i \in 0..(n - 1)}

SameComponent(i, j, es) == j \in ReachableFrom({i}, es)

\* a and b are joined by one of the edges es
Joined(a, b, es) ==
    \E k \in 1..Len(es) : \/ (es[k].u = a /\ es[k].v = b)
                          \/ (es[k].u = b /\ es[k].v = a)

Loaded(nm) == \E i \in 1..Len(cities) : cities[i] = nm

\* the index of a loaded city in the stored city list
IndexOf(nm) == CHOOSE i \in 0..(Len(cities) - 1) : cities[i + 1] = nm

ScenarioEdges == <<Edge(0, 1, 1), Edge(1, 2, 2), Edge(0, 2, 5)>>

\* C7: after a load_topology call that returned, with n cities and an edge
\* set of k connected components, exactly n - k edges are accepted and the
\* accepted edges contain no cycle (a graph with n vertices and m edges is
\* cycle-free exactly when it has n - m components).
C7_MstEdgeCount ==
    loadStatus = "ok" =>
        LET n == Len(cities) IN
        /\ Len(mst_edges) = n - Cardinality(Components(n, edges))
        /\ Cardinality(Components(n, mst_edges)) = n - Len(mst_edges)
        /\ \A k \in 1..Len(mst_edges) : \E j \in 1..Len(edges) : edges[j] = mst_edges[k]

\* C7 witness: three cities, three edges, one of them rejected as a cycle
\* and one city left isolated (k = 2, one accepted edge).
C7_Witness ==
    /\ loadStatus = "ok"
    /\ Len(cities) = 3
    /\ Len(edges) = 3
    /\ Cardinality(Components(3, edges)) = 2
    /\ Len(mst_edges) = 1

\* C8: for loaded cities A # B in one component, find_route(A, B) starts
\* with A, ends with B, repeats no city and steps only along accepted MST
\* edges; with cities [A,B,C] and edges (A,B,1),(B,C,2),(A,C,5) the route
\* from A to C is [A,B,C], not the direct edge.
C8_RouteIsTreePath ==
    (/\ routeQuery # NoQuery
     /\ loadStatus = "ok"
     /\ Loaded(routeQuery.source)
     /\ Loaded(routeQuery.target)
     /\ routeQuery.source # routeQuery.target
     /\ SameComponent(IndexOf(routeQuery.source), IndexOf(routeQuery.target), edges))
    => LET p == routeQuery.result.path IN
       /\ ~routeQuery.result.raised
       /\ Len(p) >= 2
       /\ p[1] = routeQuery.source
       /\ p[Len(p)] = routeQuery.target
       /\ \A i \in 1..Len(p) : Loaded(p[i])
       /\ \A i, j \in 1..Len(p) : i # j => p[i] # p[j]
       /\ \A i \in 1..(Len(p) - 1) : Joined(IndexOf(p[i]), IndexOf(p[i + 1]), mst_edges)
       /\ (cities = <<"A", "B", "C">> /\ edges = ScenarioEdges
            /\ routeQuery.source = "A" /\ routeQuery.target = "C")
           => p = <<"A", "B", "C">>

\* C8 witness: the documented scenario, queried from A to C.
C8_Witness ==
    /\ loadStatus = "ok"
    /\ cities = <<"A", "B", "C">>
    /\ edges = ScenarioEdges
    /\ routeQuery # NoQuery
    /\ routeQuery.source = "A"
    /\ routeQuery.target = "C"
    /\ routeQuery.result.path = <<"A", "B", "C">>

\* C9: find_route(A, B) returns the empty path and does not raise when A or
\* B is not a city of the stored topology (also before any load), or when
\* both are cities of a topology whose load returned and they lie in
\* different components.
C9_NoRouteIsEmpty ==
    routeQuery # NoQuery =>
        /\ (~Loaded(routeQuery.source) \/ ~Loaded(routeQuery.target))
            => routeQuery.result = [raised |-> FALSE, path |-> <<>>]
        /\ (/\ loadStatus = "ok"
            /\ Loaded(routeQuery.source)
            /\ Loaded(routeQuery.target)
            /\ ~SameComponent(IndexOf(routeQuery.source), IndexOf(routeQuery.target), edges))
            => routeQuery.result = [raised |-> FALSE, path |-> <<>>]

\* C9 witness: two loaded cities in different components of a forest that
\* has at least one edge, queried, with the empty path as the answer.
C9_Witness ==
    /\ loadStatus = "ok"
    /\ routeQuery # NoQuery
    /\ Loaded(routeQuery.source)
    /\ Loaded(routeQuery.target)
    /\ Len(mst_edges) >= 1
    /\ ~SameComponent(IndexOf(routeQuery.source), IndexOf(routeQuery.target), edges)
    /\ routeQuery.result.path = <<>>

RECURSIVE Pick(_, _, _)
Pick(es, S, k) ==
    IF k > Len(es) THEN <<>>
    ELSE IF k \in S THEN <<es[k]>> \o Pick(es, S, k + 1)
    ELSE Pick(es, S, k + 1)

RECURSIVE TotalWeight(_)
TotalWeight(es) == IF es = <<>> THEN 0 ELSE Head(es).w + TotalWeight(Tail(es))

\* how often the edge e occurs in es
Count(es, e) == Cardinality({k \in 1..Len(es) : es[k] = e})

\* es is cycle-free on n cities and connects every pair the input connects
SpanningForest(n, es) ==
    /\ Cardinality(Components(n, es)) = n - Len(es)
    /\ Components(n, es) = Components(n, edges)

\* C31: after a load_topology call that returned, the accepted edges are
\* input edges (each used no more often than it was given), they are
\* cycle-free and connect every pair of cities the input connects, and no
\* other such subset of the input edges has a smaller total weight; parallel
\* edges and self-loops are among the inputs.
C31_MinimumSpanningForest ==
    loadStatus = "ok" =>
        LET n == Len(cities) IN
        /\ \A k \in 1..Len(mst_edges) :
               Count(mst_edges, mst_edges[k]) <= Count(edges, mst_edges[k])
        /\ SpanningForest(n, mst_edges)
        /\ \A S \in SUBSET (1..Len(edges)) :
               SpanningForest(n, Pick(edges, S, 1))
                   => TotalWeight(mst_edges) <= TotalWeight(Pick(edges, S, 1))

\* C31 witness: a returned load of three cities whose input is not in weight
\* order and has a spanning forest heavier than the accepted one.
C31_Witness ==
    /\ loadStatus = "ok"
    /\ Len(cities) = 3
    /\ Len(edges) = 3
    /\ edges[1].w > edges[3].w
    /\ Len(mst_edges) = 2
    /\ \E S \in SUBSET (1..Len(edges)) :
           /\ SpanningForest(3, Pick(edges, S, 1))
           /\ TotalWeight(Pick(edges, S, 1)) > TotalWeight(mst_edges)

\* the input edge at position i is considered before the one at position j:
\* lighter first, and at equal weight the earlier position first
Before(i, j) == edges[i].w < edges[j].w \/ (edges[i].w = edges[j].w /\ i < j)

ConsideredBefore(j) == {i \in 1..Len(edges) : Before(i, j)}

\* the edge at position j joins two different components at its turn
JoinsAtItsTurn(j) ==
    ~SameComponent(edges[j].u, edges[j].v, Pick(edges, ConsideredBefore(j), 1))

AcceptedPositions == {j \in 1..Len(edges) : JoinsAtItsTurn(j)}

\* C32: after a load_topology call that returned, the accepted edges are
\* exactly the input edges that join two different components when the
\* edges are considered by weight and, at equal weight, in input order; they
\* are stored in that order, so the earlier of two equal-weight edges wins
\* and no other key reorders ties.
C32_TiesInInputOrder ==
    loadStatus = "ok" =>
        /\ Len(mst_edges) = Cardinality(AcceptedPositions)
        /\ \A j \in AcceptedPositions :
               mst_edges[Cardinality({i \in AcceptedPositions : Before(i, j)}) + 1] = edges[j]

\* C32 witness: two different parallel edges of equal weight; the earlier
\* one is accepted and the later one is not, although the later one has the
\* smaller first endpoint.
C32_Witness ==
    /\ loadStatus = "ok"
    /\ Len(edges) >= 2
    /\ edges[1] = Edge(1, 0, 1)
    /\ edges[2] = Edge(0, 1, 1)
    /\ \E k \in 1..Len(mst_edges) : mst_edges[k] = edges[1]
    /\ \A k \in 1..Len(mst_edges) : mst_edges[k] # edges[2]

\* every endpoint of the edges es is an index of the stored city list
InRange(es) ==
    \A k \in 1..Len(es) : es[k].u \in 0..(Len(cities) - 1) /\ es[k].v \in 0..(Len(cities) - 1)

\* C33: after any load_topology call, returned or raised, the name/index
\* maps are those of the stored cities, the MST edges are edges of the stored
\* edge list between stored cities, the MST adjacency has one entry per
\* stored city and is built from the stored MST edges, and after a call that
\* returned the MST is the one computed from the stored cities and edges.
C33_TopologyOfOneLoad ==
    loadStatus # "none" =>
        /\ city_to_index = CityToIndex(cities)
        /\ index_to_city = IndexToCity(cities)
        /\ \A k \in 1..Len(mst_edges) : Count(edges, mst_edges[k]) >= 1
        /\ InRange(mst_edges)
        /\ DOMAIN mst_adjacency = 0..(Len(cities) - 1)
        /\ mst_adjacency = MstAdjacency(EmptyAdjacency(Len(cities)), mst_edges, 1)
        /\ loadStatus = "ok" =>
               /\ mst_edges = compute_mst(cities, edges).mst_edges
               /\ mst_adjacency = compute_mst(cities, edges).mst_adjacency

Reverse(p) == [i \in 1..Len(p) |-> p[Len(p) + 1 - i]]

LoadedNames == {cities[i] : i \in 1..Len(cities)}

\* C35: for the loaded cities of a find_route call, the route in the other
\* direction is the reverse of the route returned and neither call raises;
\* is_connected is reflexive, symmetric and transitive on the loaded cities.
C35_RoutesSymmetric ==
    (/\ routeQuery # NoQuery
     /\ Loaded(routeQuery.source)
     /\ Loaded(routeQuery.target))
    => LET back == find_route(routeQuery.target, routeQuery.source) IN
       /\ ~routeQuery.result.raised
       /\ ~back.raised
       /\ back.path = Reverse(routeQuery.result.path)
       /\ \A a \in LoadedNames : ~find_route(a, a).raised /\ is_connected(a, a)
       /\ \A a, b \in LoadedNames :
              (~find_route(a, b).raised /\ is_connected(a, b))
                  => (~find_route(b, a).raised /\ is_connected(b, a))
       /\ \A a, b, c \in LoadedNames :
              (is_connected(a, b) /\ is_connected(b, c)) => is_connected(a, c)

\* ------------------------------------------------------------------------
\* Properties of the relay
\* ------------------------------------------------------------------------
\* the send_text calls of the relay task that carry msg to the session of city
RelaySends(city, msg) ==
    {i \in 1..Len(sendLog) :
        sendLog[i].by = "relay" /\ sendLog[i].city = city /\ sendLog[i].msg = msg}

\* the send_text calls of the relay task
AllRelaySends == {i \in 1..Len(sendLog) : sendLog[i].by = "relay"}

\* C15: a relay that got as far as sending attempts delivery of the one
\* envelope exactly once to each city of the route that has a registered
\* session when the sends start, and exactly once to Monitor_Admin when it is
\* registered (at that moment if it is on the route, otherwise when the route
\* sends have resolved); no result of one send changes the other attempts.
C15_RelayOncePerRecipient ==
    (relay.pc = "done" /\ relay.outcome = "relayed") =>
        /\ \A k \in 1..Len(relay.route) :
              LET city == relay.route[k] IN
              /\ Cardinality(RelaySends(city, relay.envelope))
                    = IF city \in DOMAIN relay.active_at_send THEN 1 ELSE 0
              /\ \A i \in RelaySends(city, relay.envelope) :
                    sendLog[i].ws = relay.active_at_send[city]
        /\ MonitorAdmin \notin Range(relay.route) =>
              /\ Cardinality(RelaySends(MonitorAdmin, relay.envelope))
                    = IF relay.monitor_at_return # NoChannel THEN 1 ELSE 0
              /\ \A i \in RelaySends(MonitorAdmin, relay.envelope) :
                    sendLog[i].ws = relay.monitor_at_return
        /\ \A i \in AllRelaySends :
              sendLog[i].msg = relay.envelope
              /\ sendLog[i].city \in Range(relay.route) \cup {MonitorAdmin}

\* C15 witness: a relay over the route A, B whose send to A failed has sent
\* the envelope to B and to the registered Monitor_Admin, which is not on the
\* route.
C15_Witness ==
    /\ relay.pc = "done"
    /\ relay.outcome = "relayed"
    /\ relay.route = <<"A", "B">>
    /\ relay.sends[1].state = "disconnect"
    /\ relay.sends[2].state = "ok"
    /\ relay.monitor.state = "ok"
    /\ Cardinality(RelaySends("B", relay.envelope)) = 1
    /\ Cardinality(RelaySends(MonitorAdmin, relay.envelope)) = 1

\* the (city, channel) pairs whose send failed with a disconnect-class failure
FailedSends ==
    {<<relay.sends[i].city, relay.sends[i].ws>> :
        i \in {j \in 1..Len(relay.sends) : relay.sends[j].state = "disconnect"}}
    \cup (IF relay.monitor.state = "disconnect"
          THEN {<<relay.monitor.city, relay.monitor.ws>>} ELSE {})

\* C16: once the route sends have resolved, the (city, channel) pairs the
\* relay evicts are pairs whose send on that channel failed with a
\* disconnect-class failure, and no such channel is left registered; a
\* channel registered for the city while the send to the previous channel was
\* pending is never evicted, for route cities and Monitor_Admin alike.
C16_RelayEvictsFailedChannelsOnly ==
    (relay.pc \in {"monitor", "done"} /\ relay.outcome = "relayed") =>
        /\ relay.evicted \subseteq FailedSends
        /\ \A i \in 1..Len(relay.sends) :
              relay.sends[i].state = "disconnect" =>
                  RegisteredIn(active_connections, relay.sends[i].city) # relay.sends[i].ws

\* C19: a send_encrypted_message that finds zero cities, or an empty route,
\* ends with an error and nothing else: the only send_text call is one error
\* message to the channel registered for the requesting city, no key is
\* derived or cached and no envelope is made; a request with cities loaded
\* and a route goes on to the relay (a request whose message is a JSON object
\* fails before the task looks at either).
C19_NoRouteErrorToRequesterOnly ==
    /\ relay.outcome = "error" =>
          /\ relay.pc = "done"
          /\ Cardinality(AllRelaySends)
                = IF relay.requester_at_start # NoChannel THEN 1 ELSE 0
          /\ \A i \in AllRelaySends :
                /\ sendLog[i].msg.type = "error"
                /\ sendLog[i].city = relay.from_city
                /\ sendLog[i].ws = relay.requester_at_start
          /\ keysDerived = <<>>
          /\ shared_secrets = EmptyDict
          /\ relay.envelope = NoMessage
          /\ relay.sends = <<>>
          /\ relay.monitor = NoSend
          /\ relay.evicted = {}
    /\ (relay.pc \notin {"idle", "dropped", "created"} /\ relay.message_type # "dict") =>
          (relay.outcome = "error"
              <=> (relay.cities_at_start = 0 \/ relay.found.path = <<>>))

\* C19 witness: with B and Monitor_Admin registered, the request of A for a
\* city of another component has been answered with the error alone.
C19_Witness ==
    /\ relay.outcome = "error"
    /\ relay.cities_at_start = 3
    /\ relay.to_city = "B"
    /\ {"A", "B", MonitorAdmin} \subseteq DOMAIN active_connections
    /\ Len(sendLog) = 1
    /\ sendLog[1].msg = ErrorMessage("route")
    /\ sendLog[1].ws = active_connections["A"]

\* C20: every send_encrypted request received has one of two outcomes: the
\* envelope is relayed, or an error message is sent to the requester; no
\* request, one without text or without recipient included, ends without
\* either.
C20_EveryRequestRelayedOrAnswered ==
    relay.pc \in {"dropped", "done"} =>
        \/ relay.outcome = "relayed"
        \/ relay.requester_at_start = NoChannel /\ relay.pc = "done"
        \/ \E i \in 1..Len(sendLog) :
              sendLog[i].msg.type = "error" /\ sendLog[i].city = relay.from_city

\* a request whose handling raised inside send_encrypted_message has ended in
\* the task returning, with one error message to the channel registered for
\* the requesting city at that moment (none when there is none), nothing sent
\* to anyone else and no send or eviction by the task
FailureAnsweredToRequester ==
    /\ relay.outcome # "raised"
    /\ relay.outcome = "failed" =>
          /\ relay.pc = "done"
          /\ Cardinality(AllRelaySends)
                = IF relay.requester_at_failure # NoChannel THEN 1 ELSE 0
          /\ \A i \in AllRelaySends :
                /\ sendLog[i].msg = ErrorMessage("failed")
                /\ sendLog[i].city = relay.from_city
                /\ sendLog[i].ws = relay.requester_at_failure
          /\ relay.sends = <<>>
          /\ relay.monitor = NoSend
          /\ relay.evicted = {}

\* the relay has ended with a delivery that failed
DeliveryFailed ==
    /\ relay.pc = "done"
    /\ relay.outcome = "relayed"
    /\ \/ \E i \in 1..Len(relay.sends) : relay.sends[i].state \in {"disconnect", "other"}
       \/ relay.monitor.state \in {"disconnect", "other"}

\* C21 as stated: send_encrypted_message never raises to its caller; a failure
\* of the key agreement, the encryption, the serialization or a delivery ends
\* in at most one error message, to the requester's session and to no other,
\* and in no session evicted.
C21_FailureNeverEvicts ==
    /\ FailureAnsweredToRequester
    /\ DeliveryFailed =>
          /\ Cardinality({i \in AllRelaySends : sendLog[i].msg.type = "error"}) <= 1
          /\ \A i \in AllRelaySends :
                sendLog[i].msg.type = "error" => sendLog[i].city = relay.from_city
          /\ relay.evicted = {}

\* C21, amended: send_encrypted_message never raises to its caller; an
\* exception in its steps before the sends (the key agreement, the
\* encryption, the serialization) ends in at most one error message, to the
\* requester's session and to no other, and in no eviction; a failed delivery
\* is answered with no message to anyone, and evicts nothing but the
\* registration of a city whose send failed with a disconnect-class failure.
C21_FailureAnsweredDeliveryEvicts ==
    /\ FailureAnsweredToRequester
    /\ DeliveryFailed =>
          /\ \A i \in AllRelaySends : sendLog[i].msg = relay.envelope
          /\ \A pair \in relay.evicted :
                \/ \E i \in 1..Len(relay.sends) :
                      relay.sends[i].city = pair[1] /\ relay.sends[i].state = "disconnect"
                \/ pair[1] = MonitorAdmin /\ relay.monitor.state = "disconnect"

\* C21 witness: the encryption of a request of A for C raised after the key
\* was derived, with B and the requester registered: one error message, on
\* A's channel.
C21_Witness ==
    /\ relay.outcome = "failed"
    /\ relay.message_type = "nested_list"
    /\ relay.derived
    /\ "B" \in DOMAIN active_connections
    /\ relay.requester_at_failure # NoChannel
    /\ Len(sendLog) = 1
    /\ sendLog[1].ws = relay.requester_at_failure
    /\ sendLog[1].msg = ErrorMessage("failed")

\* C30: the send_text calls of one relay to the cities of its route are made
\* in route order: each city with a channel when the sends start has its
\* call, and the call for an earlier position of the route comes before the
\* call for a later one, whatever the state of the earlier send.
C30_SendsIssuedInRouteOrder ==
    relay.outcome = "relayed" =>
        /\ \A i \in 1..Len(relay.sends) :
              relay.sends[i].ws # NoChannel =>
                  \E a \in RelaySends(relay.route[i], relay.envelope) :
                      sendLog[a].ws = relay.sends[i].ws
        /\ \A i \in 1..Len(relay.route), j \in 1..Len(relay.route) :
              i < j =>
                  \A a \in RelaySends(relay.route[i], relay.envelope),
                     b \in RelaySends(relay.route[j], relay.envelope) : a < b

\* C30 witness: over the route A, B, C the send to A is still pending when
\* the sends to B and C, issued after it, have completed.
C30_Witness ==
    /\ relay.pc = "sending"
    /\ relay.route = <<"A", "B", "C">>
    /\ relay.sends[1].state = "pending"
    /\ relay.sends[2].state = "ok"
    /\ relay.sends[3].state \in {"ok", "absent"}
    /\ \E a \in RelaySends("A", relay.envelope), b \in RelaySends("B", relay.envelope) : a < b

\* the task of the n-th request received, with two requests received
Task(n) == IF relay.seq = n THEN relay ELSE relay.later[1]

\* the positions in the log of the sends of the n-th request's envelope
EnvelopeSends(n) ==
    {i \in 1..Len(sendLog) :
        /\ sendLog[i].by = "relay"
        /\ sendLog[i].msg.type = "encrypted_message"
        /\ sendLog[i].msg.original_message = Task(n).message}

\* the envelope of the later request is sent only after the task of the
\* earlier request has issued its sends, and after each of them
InOrderOfReceipt ==
    \A j \in EnvelopeSends(2) :
        /\ Task(1).pc \in {"sending", "monitor", "done"}
        /\ \A i \in EnvelopeSends(1) : i < j

TakesUp(ws) == channel'[ws].turns = channel[ws].turns + 1

IsPing(p) == p.json = "object" /\ p.type = "ping"

\* C22: the turn that takes up a ping makes one send_text call, of a pong
\* with the timestamp of the ping, on the channel the ping arrived on; it
\* changes no registry entry, starts no relay, broadcast or delivery and does
\* not end the loop, whatever else the ping carries (a recipient, a message
\* that is a number).
C22_PingAnsweredOnSameChannel ==
    [][\A ws \in Channels :
          (TakesUp(ws) /\ IsPing(channel'[ws].inbound)) =>
              /\ sendLog' = Append(sendLog,
                                   [ws |-> ws, city |-> channel[ws].city, by |-> "endpoint",
                                    msg |-> [type |-> "pong",
                                             timestamp |-> channel'[ws].inbound.timestamp]])
              /\ channel'[ws].pc = "pong"
              /\ active_connections' = active_connections
              /\ city_connections' = city_connections
              /\ keepalive_tasks' = keepalive_tasks
              /\ relay' = relay
              /\ broadcast' = broadcast
              /\ deliver' = deliver]_vars

\* C22 witness: with two cities registered, a ping that also carries a
\* recipient and a number as message has been answered by the one pong, with
\* its timestamp, on its own channel.
C22_Witness ==
    \E ws \in Channels :
        /\ channel[ws].pc = "pong"
        /\ channel[ws].inbound = Payload("object", "ping", "B", "int", "t1")
        /\ Cardinality(DOMAIN active_connections) = 2
        /\ active_connections[channel[ws].city] = ws
        /\ Len(sendLog) = 1
        /\ sendLog[1].ws = ws
        /\ sendLog[1].msg = [type |-> "pong", timestamp |-> "t1"]

\* a payload that is not of a recognized kind
Unrecognized(p) ==
    \/ p.json \in {"invalid", "array"}
    \/ /\ p.json = "object"
       /\ \/ p.type \in {"other", "missing"}
          \/ p.type = "send_encrypted" /\ p.message \in {"int", "dict", "nested_list"}

\* C23: the turn that takes up a payload that is not of a recognized kind
\* leaves the message loop running and the registrations as they were.
C23_UnrecognizedSkipped ==
    [][\A ws \in Channels :
          (TakesUp(ws) /\ Unrecognized(channel'[ws].inbound)) =>
              /\ channel'[ws].pc = "open"
              /\ active_connections' = active_connections]_vars

\* ------------------------------------------------------------------------
\* Properties of the keepalive loop
\* ------------------------------------------------------------------------
\* this step is the keepalive loop of the channel sending a heartbeat
SendsProbe(ws) == channel'[ws].probes = channel[ws].probes + 1

\* this step is a step of the keepalive loop of the channel
LoopStep(ws) ==
    /\ channel[ws].keepalive \in {"sleeping", "sending"}
    /\ channel'[ws].keepalive # channel[ws].keepalive

\* C26: a keepalive loop sends a heartbeat in a step in which its channel is
\* the one registered for its city, as one send_text call on that channel;
\* a loop whose sleep ends while its channel is not the one registered
\* (superseded or removed) sends nothing and ends.
C26_ProbeOnlyOnRegisteredChannel ==
    [][\A ws \in Channels :
          /\ SendsProbe(ws) =>
                /\ RegisteredIn(active_connections, channel[ws].city) = ws
                /\ sendLog' = Append(sendLog,
                                     [ws |-> ws, city |-> channel[ws].city,
                                      msg |-> Heartbeat, by |-> "keepalive"])
          /\ (LoopStep(ws) /\ channel[ws].keepalive = "sleeping"
                /\ RegisteredIn(active_connections, channel[ws].city) # ws) =>
                /\ channel'[ws].keepalive = "ended"
                /\ sendLog' = sendLog]_vars

\* C26 witness: a channel that was superseded without a disconnect has had
\* its loop end at the test, before any heartbeat, while the loop of the
\* channel registered in its place has a heartbeat under way.
C26_Witness ==
    \E ws \in Channels, newer \in Channels :
        /\ channel[ws].keepalive = "ended"
        /\ channel[ws].probes = 0
        /\ ws \notin disconnectCalls
        /\ channel[newer].city = channel[ws].city
        /\ RegisteredIn(active_connections, channel[ws].city) = newer
        /\ newer # ws
        /\ channel[newer].keepalive = "sending"

\* C27: no step of a keepalive loop changes active_connections or
\* city_connections; in particular the loop whose heartbeat failed ends and
\* leaves the session of its city registered.
C27_KeepaliveLeavesRegistry ==
    [][\A ws \in Channels :
          LoopStep(ws) =>
              /\ active_connections' = active_connections
              /\ city_connections' = city_connections
              /\ disconnectCalls' = disconnectCalls
              /\ channel[ws].keepalive = "sending" =>
                    channel'[ws].keepalive \in {"sleeping", "ended"}]_vars

\* C27 witness: the heartbeat of a registered channel failed: its loop has
\* ended, its endpoint runs and the channel is still the one registered.
C27_Witness ==
    \E ws \in Channels :
        /\ channel[ws].keepalive = "ended"
        /\ channel[ws].probes = 1
        /\ ws \notin keepalive_tasks
        /\ channel[ws].pc = "open"
        /\ RegisteredIn(active_connections, channel[ws].city) = ws
        /\ ws \in Range(city_connections[channel[ws].city])

\* the loop of the channel was started
Started(ws) == channel[ws].keepalive # "none"

\* the loop of the channel was cancelled: it was stopped inside its loop
Cancelled(ws) ==
    /\ channel[ws].keepalive \in {"sleeping", "sending"}
    /\ ws \notin keepalive_tasks

\* a loop is cancelled only in the step of the first disconnect call for its
\* channel, and once stopped it is never started again
CancelledByOwnDisconnectOnly ==
    [][\A ws \in Channels :
          /\ (~Cancelled(ws) /\ Cancelled(ws)') =>
                (ws \notin disconnectCalls /\ ws \in disconnectCalls')
          /\ (Started(ws) /\ ws \notin keepalive_tasks) => ws \notin keepalive_tasks']_vars

\* C28 as stated: every keepalive loop that connect started is cancelled, once,
\* by the disconnect of its channel, and by no other disconnect.
C28_CancelledExactlyOnce ==
    /\ CancelledByOwnDisconnectOnly
    /\ [](\A ws \in disconnectCalls : Started(ws) => Cancelled(ws))

\* C28, amended: a keepalive loop that connect started is cancelled at most
\* once and only by a disconnect of its own channel (by the endpoint, by a
\* superseding connect or by an eviction after a failed send), which cancels
\* it unless it has already ended by itself; after the disconnect of a
\* channel its loop is not running.
C28_CancelledByOwnDisconnect ==
    /\ CancelledByOwnDisconnectOnly
    /\ [](\A ws \in disconnectCalls :
            /\ ws \notin keepalive_tasks
            /\ Started(ws) => (Cancelled(ws) \/ channel[ws].keepalive = "ended"))

\* C28 witness: a connect for the city of a registered channel has superseded
\* it: the loop of the old channel is cancelled, with a heartbeat under way,
\* and the loop of the new channel runs.
C28_Witness ==
    \E ws \in Channels, newer \in Channels :
        /\ Cancelled(ws)
        /\ channel[ws].keepalive = "sending"
        /\ ws \in disconnectCalls
        /\ channel[newer].city = channel[ws].city
        /\ RegisteredIn(active_connections, channel[ws].city) = newer
        /\ newer \in keepalive_tasks

\* ------------------------------------------------------------------------
\* Properties of the broadcast
\* ------------------------------------------------------------------------
\* the send_text calls of the broadcast on a channel
BroadcastSends(ws) ==
    {i \in 1..Len(sendLog) : sendLog[i].by = "broadcast" /\ sendLog[i].ws = ws}

\* C17: broadcast_message removes no session while a send of it is pending:
\* its disconnect calls are made when every send has resolved, for exactly
\* the (city, channel) pairs whose send failed with a disconnect-class
\* failure; a session whose send succeeded or failed with another failure is
\* as registered when broadcast_message returns as it was when gather returned.
C17_BroadcastEvictsAfterAllSends ==
    /\ broadcast.pc # "done" => broadcast.evicted = {}
    /\ broadcast.pc = "done" =>
          /\ \A i \in 1..Len(broadcast.sends) : broadcast.sends[i].state # "pending"
          /\ broadcast.evicted =
                {<<broadcast.sends[i].city, broadcast.sends[i].ws>> :
                    i \in {j \in 1..Len(broadcast.sends) : broadcast.sends[j].state = "disconnect"}}
          /\ \A i \in 1..Len(broadcast.sends) :
                LET city == broadcast.sends[i].city
                    ws == broadcast.sends[i].ws
                IN IF broadcast.sends[i].state = "disconnect"
                   THEN RegisteredIn(broadcast.after, city) # ws
                   ELSE RegisteredIn(broadcast.before, city) = ws
                            => RegisteredIn(broadcast.after, city) = ws

\* C17 witness: a broadcast to two sessions has returned; the send to A
\* failed with a disconnect and A was evicted, the send to B failed otherwise
\* and B is still registered.
C17_Witness ==
    /\ broadcast.pc = "done"
    /\ Len(broadcast.sends) = 2
    /\ broadcast.sends[1].state = "disconnect"
    /\ broadcast.sends[2].state = "other"
    /\ RegisteredIn(broadcast.before, "A") = broadcast.sends[1].ws
    /\ "A" \notin DOMAIN broadcast.after
    /\ RegisteredIn(broadcast.after, "B") = broadcast.sends[2].ws

\* C18: a "message" payload received from a channel is sent, as the same
\* JSON object, exactly once to every channel registered when the broadcast
\* starts, the sender's own included, and to no other channel, whatever the
\* results of the sends.
C18_BroadcastToEverySession ==
    broadcast.pc \in {"sending", "done"} =>
        /\ \A city \in DOMAIN broadcast.connections :
              LET sends == BroadcastSends(broadcast.connections[city]) IN
              /\ Cardinality(sends) = 1
              /\ \A i \in sends :
                    /\ sendLog[i].city = city
                    /\ json_loads(sendLog[i].msg) = json_loads(broadcast.received)
        /\ \A i \in 1..Len(sendLog) :
              sendLog[i].by = "broadcast" =>
                  RegisteredIn(broadcast.connections, sendLog[i].city) = sendLog[i].ws

\* C18 witness: a message written compactly by the registered channel of A
\* has been sent to A itself and to B; the send to A failed, the send to B
\* succeeded.
C18_Witness ==
    /\ broadcast.pc = "done"
    /\ broadcast.received.style = "compact"
    /\ RegisteredIn(broadcast.connections, "A") = broadcast.ws
    /\ "B" \in DOMAIN broadcast.connections
    /\ broadcast.sends[1].state = "disconnect"
    /\ broadcast.sends[2].state = "ok"
    /\ Cardinality(BroadcastSends(broadcast.ws)) = 1
    /\ Cardinality(BroadcastSends(broadcast.connections["B"])) = 1

\* C24: the message loop that took up a payload is never suspended on a
\* broadcast that has a send to the loop's own channel outstanding.
C24_NoAwaitOfOwnBroadcast ==
    ~ /\ broadcast.pc = "sending"
      /\ channel[broadcast.ws].pc = "open"
      /\ \E i \in 1..Len(broadcast.sends) :
            /\ broadcast.sends[i].ws = broadcast.ws
            /\ broadcast.sends[i].state = "pending"

\* the sends of the broadcast whose city was superseded while they were
\* pending and that failed as closed: the channel registered for the city
\* when gather returned is another one than the channel of the send
SupersededSends ==
    {i \in 1..Len(broadcast.sends) :
        /\ broadcast.sends[i].state = "disconnect"
        /\ RegisteredIn(broadcast.before, broadcast.sends[i].city)
               \notin {NoChannel, broadcast.sends[i].ws}}

\* C40: every send of a broadcast is made on the channel registered for its
\* city when the broadcast started, and when a city was superseded while the
\* sends were pending and the send on its old channel failed as closed, the
\* channel registered for the city when gather returned is still the one
\* registered when broadcast_message returns.
C40_BroadcastEvictsByPair ==
    broadcast.pc \in {"sending", "done"} =>
        /\ \A i \in 1..Len(broadcast.sends) :
               broadcast.sends[i].ws =
                   RegisteredIn(broadcast.connections, broadcast.sends[i].city)
        /\ broadcast.pc = "done" =>
               \A i \in SupersededSends :
                   RegisteredIn(broadcast.after, broadcast.sends[i].city)
                       = RegisteredIn(broadcast.before, broadcast.sends[i].city)

\* C40 witness: the broadcast sent to A on a channel that a later connect
\* for A then superseded; the send failed as closed and the broadcast has
\* returned with the new channel of A registered.
C40_Witness ==
    /\ broadcast.pc = "done"
    /\ \E i \in SupersededSends :
           /\ broadcast.sends[i].city = "A"
           /\ <<"A", broadcast.sends[i].ws>> \in broadcast.evicted
           /\ RegisteredIn(broadcast.after, "A") # broadcast.sends[i].ws
           /\ RegisteredIn(broadcast.after, "A") # NoChannel
           /\ channel[RegisteredIn(broadcast.after, "A")].old = NoChannel
           /\ channel[RegisteredIn(broadcast.after, "A")].pc = "open"

\* ------------------------------------------------------------------------
\* Properties of the delivery of envelopes
\* ------------------------------------------------------------------------
\* the last decrypt_and_deliver_message call was made at the destination of
\* the envelope it was given
AtDestination ==
    /\ deliver.status \notin {"none", "malformed"}
    /\ deliver.current_city = deliver.envelope.to

\* C12: when the envelope send_encrypted_message made for plaintext m is
\* handed to decrypt_and_deliver_message at its destination D, whose session
\* is registered, a decrypted_message is sent to D's session with
\* final_message = m and aes_decrypted = the envelope's compressed bitstring.
C12_DeliveredPlaintext ==
    (/\ AtDestination
     /\ deliver.envelope = relay.envelope
     /\ relay.to_city \in DOMAIN deliver.active) =>
        /\ deliver.status = "decrypted"
        /\ deliver.sent.type = "decrypted_message"
        /\ deliver.sent.final_message = relay.message
        /\ deliver.sent.aes_decrypted = relay.envelope.huffman_encoded
        /\ deliver.to = deliver.active[relay.to_city]

\* decryption of the envelope of the last call fails: there is no key for the
\* pair, the ciphertext is not authentic under the pair's key, or the
\* decrypted bitstring does not decode to the end with the envelope's table
DecryptionFails ==
    /\ AtDestination
    /\ \/ deliver.status \in {"no_key", "auth_failed"}
       \/ UnmatchedTail(deliver.envelope.encrypted_data.b64.data,
                        deliver.envelope.huffman_codes, <<>>) # <<>>

\* C13: when decryption of an envelope fails at its destination (no shared
\* key, authentication failure or decode failure), the call sends nothing
\* to any session.
C13_FailedDecryptionSendsNothing ==
    DecryptionFails => deliver.sent = NoMessage

\* C14: an envelope arriving on the channel of a city that is not its
\* recipient and that is on the route before the last position is sent
\* unchanged to the channel registered for the next city of the route, and
\* to no other; a city that is not on the route, or is its last element,
\* sends nothing.
C14_ForwardToNextHopOnly ==
    (deliver.status \notin {"none", "malformed"} /\ deliver.current_city # deliver.envelope.to) =>
        LET route == deliver.envelope.route
            at == {i \in 1..Len(route) : route[i] = deliver.current_city}
        IN IF \E i \in at : i < Len(route)
           THEN LET next_city == route[(CHOOSE i \in at : i < Len(route)) + 1] IN
                IF next_city \in DOMAIN deliver.active
                THEN /\ deliver.sent = deliver.envelope
                     /\ deliver.to = deliver.active[next_city]
                ELSE deliver.sent = NoMessage
           ELSE deliver.sent = NoMessage

\* C14 witness: B, the middle of the route A, B, C, has forwarded the
\* envelope to the channel of C.
C14_Witness ==
    /\ deliver.status = "forwarded"
    /\ deliver.current_city = "B"
    /\ deliver.envelope = relay.envelope
    /\ deliver.envelope.route = <<"A", "B", "C">>
    /\ deliver.to = deliver.active["C"]
    /\ sendLog[Len(sendLog)] = Sent(deliver.to, "C", relay.envelope, "deliver")

\* no city occurs twice in the route
NoRepeat(route) == \A i, j \in 1..Len(route) : i # j => route[i] # route[j]

\* the 0-based positions of a city in a route
Positions(route, city) == {i - 1 : i \in {j \in 1..Len(route) : route[j] = city}}

\* a call of the chain has forwarded the envelope
ForwardStep ==
    /\ deliver'.calls = deliver.calls + 1
    /\ deliver'.status = "forwarded"

\* C36: for an envelope whose route repeats no city, every forward goes from
\* the route position i of the city that handed the envelope in to the
\* position i + 1, a forward in a chain of hand-backs starts from the city
\* the forward before it went to, and the forwards of a chain never number
\* more than len(route) - 1.
C36_ForwardChainEnds ==
    /\ [][(ForwardStep /\ NoRepeat(deliver'.envelope.route)) =>
            /\ \E i \in Positions(deliver'.envelope.route, deliver'.current_city) :
                   Positions(deliver'.envelope.route, deliver'.next_city) = {i + 1}
            /\ deliver'.sent = deliver'.envelope
            /\ deliver'.forwards > 1 =>
                   /\ deliver'.envelope = deliver.sent
                   /\ deliver'.current_city = deliver.next_city]_vars
    /\ []((deliver.calls > 0 /\ NoRepeat(deliver.envelope.route)) =>
              deliver.forwards <= Len(deliver.envelope.route) - 1)

\* C36 witness: the envelope for the route A, B, C was handed in by A, then
\* handed back by B and by C; it was forwarded twice and the third call, at
\* the end of the route, forwarded nothing, with a further call still allowed.
C36_Witness ==
    /\ deliver.calls = 3
    /\ deliver.calls < MaxDelivers + MaxHandBacks
    /\ deliver.forwards = 2
    /\ deliver.envelope.route = <<"A", "B", "C">>
    /\ deliver.current_city = "C"
    /\ deliver.status # "forwarded"
    /\ deliver.sent.type # "encrypted_message"

====
